---- MODULE Spec2Model ----
(***************************************************************************)
(* Verification model of the VL front end: the recursive-descent parser    *)
(* (src/src/vl/parser.py) and the type checker (src/src/vl/type_checker.py)*)
(*                                                                         *)
(* The parser is modelled operator by operator: every parse_* method is a  *)
(* (recursive) operator on the cursor state s = [pos, in_pipeline] that    *)
(* returns [st, s, node] with st "ok" (normal return), "err" (ParseError   *)
(* raised) or "hang" (a loop iteration that returns to exactly the loop    *)
(* state it started from, so the loop never ends).  Token positions are    *)
(* 1-based here (self.pos + 1).  AST nodes are records that keep the field *)
(* names of the dataclasses; line numbers are left out (no parser or       *)
(* checker decision reads them), columns are kept.                         *)
(***************************************************************************)
EXTENDS Integers, Sequences, FiniteSets, TLC

VARIABLES
    tokens,          \* Parser.tokens: the token list handed to the parser
    pc,              \* position of Parser.parse / TypeChecker.check
    pstate,          \* Parser.pos and Parser._in_pipeline
    metadata,        \* Program.metadata being built
    dependencies,    \* Program.dependencies being built
    statements,      \* Program.statements being built
    export,          \* Program.export being built
    loop_count,      \* the top-level loop counter of Parser.parse
    perror,          \* the ParseError raised, or Nil
    errors,          \* TypeChecker.errors
    symbols,         \* TypeChecker.symbols: variable name -> TypeInfo
    functions,       \* TypeChecker.functions: name -> signature
    current_function,     \* TypeChecker.current_function: <<>> is None
    current_return_type,  \* TypeChecker.current_return_type: <<>> is None
    stmt_index,      \* the statement the second pass of check is at
    returned,        \* the error lists the calls of check have returned
    compiler,        \* the Compiler: its options, type_errors and outcome
    lexer            \* the Lexer: its source, position and tokens

parser_vars == <<tokens, pc, pstate, metadata, dependencies, statements, export,
                 loop_count, perror>>
checker_vars == <<errors, symbols, functions, current_function,
                  current_return_type, stmt_index>>
outer_vars == <<returned, compiler, lexer>>
vars == <<parser_vars, checker_vars, outer_vars>>

Nil == [kind |-> "None"]

-----------------------------------------------------------------------------
(* Tokens and the column layout the lexer gives them                       *)

Tk(type, value) == [type |-> type, value |-> value]

\* Token.column bookkeeping of Lexer.advance: a token's width is its lexeme,
\* a string literal's lexeme plus its two quotes.
Width(t) == IF t.type = "STRING" THEN Len(t.value) + 2 ELSE Len(t.value)

RECURSIVE LineWidth(_, _)
LineWidth(toks, n) == IF n = 0 THEN 0 ELSE LineWidth(toks, n - 1) + Width(toks[n])

\* One source line without inner blanks: indent blanks, then the lexemes.
LineTokens(line) ==
    [k \in 1..Len(line.toks) |->
        [type   |-> line.toks[k].type,
         value  |-> line.toks[k].value,
         column |-> line.indent + 1 + LineWidth(line.toks, k - 1)]]

EndColumn(line) == line.indent + 1 + LineWidth(line.toks, Len(line.toks))

\* Lexer.tokenize: the tokens of each line, a NEWLINE token between lines
\* and one EOF token after the last line.
RECURSIVE Layout(_)
Layout(lines) ==
    IF Len(lines) = 1
    THEN LineTokens(lines[1])
         \o <<[type |-> "EOF", value |-> "", column |-> EndColumn(lines[1])]>>
    ELSE LineTokens(lines[1])
         \o <<[type |-> "NEWLINE", value |-> "\\n", column |-> EndColumn(lines[1])]>>
         \o Layout(Tail(lines))

Line(indent, toks) == [indent |-> indent, toks |-> toks]

-----------------------------------------------------------------------------
(* Token navigation                                                        *)

NoToken == [type |-> "NONE", value |-> "", column |-> 0]

\* Parser.peek
peek(s, offset) ==
    IF s.pos + offset <= Len(tokens) THEN tokens[s.pos + offset] ELSE NoToken

current_token(s) == peek(s, 0)

\* Parser.advance
advance(s) == [s EXCEPT !.pos = @ + 1]

\* Parser.match
match(s, types) == current_token(s).type \in types

\* What a parse method does: it returns a node with the cursor moved (ok),
\* raises ParseError (err), or never returns (hang).
Ok(s, node) == [st |-> "ok", s |-> s, node |-> node]
Err(s, msg) == [st |-> "err", s |-> s,
                node |-> [kind |-> "ParseError", message |-> msg,
                          column |-> current_token(s).column]]
Hang(s)     == [st |-> "hang", s |-> s, node |-> Nil]

\* `r = first(); rest(r)`: a ParseError raised by the first call, or its
\* never returning, ends the method; otherwise the rest runs on its result
Bind(r, rest(_)) == IF r.st # "ok" THEN r ELSE rest(r)

\* `v = value; rest(v)`: a local variable
With(v, rest(_)) == rest(v)

\* Parser.expect: the node of an ok result is the consumed token
expect(s, type) ==
    IF match(s, {type})
    THEN Ok(advance(s), current_token(s))
    ELSE Err(s, "Expected " \o type)

\* Parser.skip_newlines
RECURSIVE skip_newlines(_)
skip_newlines(s) ==
    IF match(s, {"NEWLINE"}) THEN skip_newlines(advance(s)) ELSE s

PIPELINE_OPS == {"FILTER", "MAP", "PARSE"}

\* a lookahead that takes whatever follows the PIPE for a pipeline operation
_is_pipeline_lookahead_any(s) == peek(s, 1).type # "NONE"

\* Parser._is_pipeline_lookahead
_is_pipeline_lookahead(s) == peek(s, 1).type \in PIPELINE_OPS

-----------------------------------------------------------------------------
(* Expressions                                                             *)

\* self.<method>(): the call of a parsing method on the cursor state s
RECURSIVE self(_, _)

RECURSIVE _parse_function_body(_, _, _), if_body_loop(_, _, _, _),
          for_body_loop(_, _), data_ops_loop(_, _), object_pairs_loop(_, _),
          parse_logical_loop(_, _), parse_comparison_loop(_, _),
          parse_term_loop(_, _), parse_factor_loop(_, _),
          parse_postfix_loop(_, _), expr_list(_, _, _),
          pipeline_chain_loop(_, _), _parse_pipeline_chain(_, _)

\* parse_primary's conversion of a NUMBER lexeme: float(value) if it holds a
\* '.', else int(value).  The value is kept in tenths.
NumberValue(lexeme) ==
    CASE lexeme = "0"   -> [is_float |-> FALSE, tenths |-> 0]
      [] lexeme = "1"   -> [is_float |-> FALSE, tenths |-> 10]
      [] lexeme = "2"   -> [is_float |-> FALSE, tenths |-> 20]
      [] lexeme = "3"   -> [is_float |-> FALSE, tenths |-> 30]
      [] lexeme = "4"   -> [is_float |-> FALSE, tenths |-> 40]
      [] lexeme = "5"   -> [is_float |-> FALSE, tenths |-> 50]
      [] lexeme = "10"  -> [is_float |-> FALSE, tenths |-> 100]
      [] lexeme = "42"  -> [is_float |-> FALSE, tenths |-> 420]
      [] lexeme = "2.0" -> [is_float |-> TRUE,  tenths |-> 20]
      [] lexeme = "2.5" -> [is_float |-> TRUE,  tenths |-> 25]

LOGICAL_OPS    == {"AND", "OR"}
COMPARISON_OPS == {"EQUAL", "NOT_EQUAL", "LESS_THAN", "GREATER_THAN",
                   "LESS_EQUAL", "GREATER_EQUAL"}
TERM_OPS       == {"PLUS", "MINUS"}
FACTOR_OPS     == {"MULTIPLY", "DIVIDE", "FLOOR_DIVIDE", "MODULO"}
UNARY_OPS      == {"MINUS", "NOT"}

Operation(op_token, operands) ==
    [kind |-> "Operation", column |-> op_token.column,
     operator |-> op_token.value, operands |-> operands]

\* Parser.parse_logical (parse_expression is parse_logical)
parse_expression(s) ==
    Bind(self("parse_comparison", s), LAMBDA l: parse_logical_loop(l.s, l.node))

parse_logical_loop(s, left) ==
    IF match(s, LOGICAL_OPS)
    THEN Bind(self("parse_comparison", advance(s)), LAMBDA r:
            parse_logical_loop(r.s, Operation(current_token(s), <<left, r.node>>)))
    ELSE Ok(s, left)

\* Parser.parse_comparison
parse_comparison(s) ==
    Bind(self("parse_term", s), LAMBDA l: parse_comparison_loop(l.s, l.node))

parse_comparison_loop(s, left) ==
    IF match(s, COMPARISON_OPS)
    THEN Bind(self("parse_term", advance(s)), LAMBDA r:
            parse_comparison_loop(r.s, Operation(current_token(s), <<left, r.node>>)))
    ELSE Ok(s, left)

\* Parser.parse_term
parse_term(s) ==
    Bind(self("parse_factor", s), LAMBDA l: parse_term_loop(l.s, l.node))

\* a term loop that groups to the right: a-b-c as a-(b-c)
parse_term_loop_right(s, left) ==
    IF match(s, TERM_OPS)
    THEN Bind(self("parse_term", advance(s)), LAMBDA r:
            Ok(r.s, Operation(current_token(s), <<left, r.node>>)))
    ELSE Ok(s, left)

parse_term_loop(s, left) ==
    IF match(s, TERM_OPS)
    THEN Bind(self("parse_factor", advance(s)), LAMBDA r:
            parse_term_loop(r.s, Operation(current_token(s), <<left, r.node>>)))
    ELSE Ok(s, left)

\* Parser.parse_factor
parse_factor(s) ==
    Bind(self("parse_unary", s), LAMBDA l: parse_factor_loop(l.s, l.node))

parse_factor_loop(s, left) ==
    IF match(s, FACTOR_OPS)
    THEN Bind(self("parse_unary", advance(s)), LAMBDA r:
            parse_factor_loop(r.s, Operation(current_token(s), <<left, r.node>>)))
    ELSE Ok(s, left)

\* Parser.parse_postfix
parse_postfix(s) ==
    Bind(self("parse_primary", s), LAMBDA p: parse_postfix_loop(p.s, p.node))

\* Parser.parse_unary
parse_unary(s) ==
    IF match(s, UNARY_OPS)
    THEN Bind(self("parse_unary", advance(s)), LAMBDA o:
            Ok(o.s, Operation(current_token(s), <<o.node>>)))
    ELSE self("parse_postfix", s)

\* the `while not self.match(closer): append(parse_expression()); skip a
\* COMMA` loop of _parse_call_args, parse_primary (@call), parse_operation_expr
\* and parse_array_literal, followed by their expect(closer)
expr_list(s, closer, acc) ==
    IF match(s, {closer})
    THEN Ok(advance(s), acc)
    ELSE Bind(self("parse_expression", s), LAMBDA e:
            expr_list(IF match(e.s, {"COMMA"}) THEN advance(e.s) ELSE e.s,
                      closer, Append(acc, e.node)))

\* Parser._parse_call_args
_parse_call_args(s, callee) ==
    Bind(expr_list(advance(s), "RPAREN", <<>>), LAMBDA a:
        Ok(a.s, [kind |-> "FunctionCall", column |-> callee.column,
                 callee |-> callee, arguments |-> a.node]))

\* the loop of Parser.parse_postfix
parse_postfix_loop(s, expr) ==
    IF match(s, {"DOT"})
    THEN Bind(expect(advance(s), "IDENTIFIER"), LAMBDA p:
            parse_postfix_loop(p.s,
                [kind |-> "MemberAccess", column |-> expr.column,
                 object |-> expr, property |-> p.node.value]))
    ELSE IF match(s, {"LBRACKET"})
    THEN Bind(self("parse_expression", advance(s)), LAMBDA i:
         Bind(expect(i.s, "RBRACKET"), LAMBDA b:
            parse_postfix_loop(b.s,
                [kind |-> "IndexAccess", column |-> expr.column,
                 object |-> expr, index |-> i.node])))
    ELSE IF match(s, {"LPAREN"})
    THEN Bind(_parse_call_args(s, expr), LAMBDA c: parse_postfix_loop(c.s, c.node))
    ELSE IF match(s, {"PIPE"}) /\ ~s.in_pipeline
    THEN IF _is_pipeline_lookahead(s)
         THEN Bind(_parse_pipeline_chain(s, expr), LAMBDA c:
                parse_postfix_loop(c.s, c.node))
         ELSE Ok(s, expr)
    ELSE Ok(s, expr)

\* Parser.parse_filter_op
parse_filter_op(s) ==
    Bind(expect(s, "FILTER"), LAMBDA t:
    Bind(expect(t.s, "COLON"), LAMBDA c:
    Bind(self("parse_expression", c.s), LAMBDA e:
    Ok(e.s, [kind |-> "FilterOp", column |-> t.node.column, condition |-> e.node]))))

\* Parser.parse_map_op
parse_map_op(s) ==
    Bind(expect(s, "MAP"), LAMBDA t:
    Bind(expect(t.s, "COLON"), LAMBDA c:
    Bind(self("parse_expression", c.s), LAMBDA e:
    Ok(e.s, [kind |-> "MapOp", column |-> t.node.column, expression |-> e.node]))))

\* Parser.parse_parse_op
parse_parse_op(s) ==
    Bind(expect(s, "PARSE"), LAMBDA t:
    Bind(expect(t.s, "COLON"), LAMBDA c:
    Bind(expect(c.s, "IDENTIFIER"), LAMBDA f:
    Ok(f.s, [kind |-> "ParseOp", column |-> t.node.column, format |-> f.node.value]))))

\* the operation after a PIPE of _parse_pipeline_chain
pipeline_op(a) ==
    IF match(a, {"FILTER"}) THEN self("parse_filter_op", a)
    ELSE IF match(a, {"MAP"}) THEN self("parse_map_op", a)
    ELSE self("parse_parse_op", a)

\* the while loop of Parser._parse_pipeline_chain
pipeline_chain_loop(s, operations) ==
    IF match(s, {"PIPE"}) /\ _is_pipeline_lookahead(s)
    THEN Bind(pipeline_op(advance(s)), LAMBDA o:
            pipeline_chain_loop(o.s, Append(operations, o.node)))
    ELSE Ok(s, operations)

\* _parse_pipeline_chain with the flag cleared after the loop instead of in
\* a finally clause: a ParseError in an operation leaves it set
_parse_pipeline_chain_without_finally(s, source) ==
    Bind(pipeline_chain_loop([s EXCEPT !.in_pipeline = TRUE], <<>>), LAMBDA l:
        Ok([l.s EXCEPT !.in_pipeline = FALSE],
           [kind |-> "DataPipeline", column |-> source.column,
            source |-> source, operations |-> l.node]))

\* Parser._parse_pipeline_chain: the guard flag is set for the loop and
\* cleared by the finally clause on return and on ParseError alike
_parse_pipeline_chain(s, source) ==
    With(pipeline_chain_loop([s EXCEPT !.in_pipeline = TRUE], <<>>), LAMBDA l:
        IF l.st # "ok" THEN [l EXCEPT !.s.in_pipeline = FALSE]
        ELSE Ok([l.s EXCEPT !.in_pipeline = FALSE],
                [kind |-> "DataPipeline", column |-> source.column,
                 source |-> source, operations |-> l.node]))

\* Parser.parse_operation_expr: op:<operator>(operands)
parse_operation_expr(s) ==
    Bind(expect(s, "OP"), LAMBDA t:
    Bind(expect(t.s, "COLON"), LAMBDA c:
    Bind(expect(advance(c.s), "LPAREN"), LAMBDA l:
    Bind(expr_list(l.s, "RPAREN", <<>>), LAMBDA a:
    Ok(a.s, [kind |-> "Operation", column |-> t.node.column,
             operator |-> current_token(c.s).value, operands |-> a.node])))))

\* the look-ahead scan of parse_array_literal: is there a FOR token at
\* bracket depth 1 before the bracket opened at the cursor is closed
RECURSIVE is_comprehension(_, _)
is_comprehension(p, depth) ==
    IF p > Len(tokens) \/ depth = 0 THEN FALSE
    ELSE IF tokens[p].type = "LBRACKET" THEN is_comprehension(p + 1, depth + 1)
    ELSE IF tokens[p].type = "RBRACKET" THEN is_comprehension(p + 1, depth - 1)
    ELSE IF tokens[p].type = "FOR" /\ depth = 1 THEN TRUE
    ELSE is_comprehension(p + 1, depth)

\* the bracket depth after the token
depth_after(tok, depth) ==
    IF tok.type = "LBRACKET" THEN depth + 1
    ELSE IF tok.type = "RBRACKET" THEN depth - 1 ELSE depth

\* the verbatim capture of a comprehension, up to the matching RBRACKET
RECURSIVE capture_comprehension(_, _, _)
capture_comprehension(s, depth, code) ==
    IF current_token(s).type = "NONE"
       \/ (current_token(s).type = "RBRACKET" /\ depth_after(current_token(s), depth) = 0)
    THEN Ok(s, code)
    ELSE capture_comprehension(advance(s), depth_after(current_token(s), depth),
            IF code = "" THEN current_token(s).value
            ELSE code \o " " \o current_token(s).value)

\* Parser.parse_array_literal
parse_array_literal(s) ==
    Bind(expect(s, "LBRACKET"), LAMBDA t:
        IF is_comprehension(t.s.pos, 1)
        THEN Bind(capture_comprehension(t.s, 1, ""), LAMBDA c:
             Bind(expect(c.s, "RBRACKET"), LAMBDA b:
                Ok(b.s, [kind |-> "PythonExpr", column |-> t.node.column,
                         code |-> "[" \o c.node \o "]"])))
        ELSE Bind(expr_list(t.s, "RBRACKET", <<>>), LAMBDA e:
                Ok(e.s, [kind |-> "ArrayLiteral", column |-> t.node.column,
                         elements |-> e.node])))

NumberLiteral(token) ==
    [kind |-> "NumberLiteral", column |-> token.column,
     value |-> NumberValue(token.value)]

Identifier(token, name) ==
    [kind |-> "Identifier", column |-> token.column, name |-> name]

\* Parser.parse_primary (py: and api: expressions are not modelled: the
\* inputs hold no PY, API or ASYNC token)
parse_primary(s) ==
    IF match(s, {"NUMBER"})
    THEN IF match(advance(s), {"DOTDOT"})
         THEN Bind(self("parse_primary", advance(advance(s))), LAMBDA e:
                Ok(e.s, [kind |-> "RangeExpr", column |-> current_token(s).column,
                         start |-> NumberLiteral(current_token(s)),
                         end |-> e.node]))
         ELSE Ok(advance(s), NumberLiteral(current_token(s)))
    ELSE IF match(s, {"STRING"})
    THEN Ok(advance(s), [kind |-> "StringLiteral",
                         column |-> current_token(s).column,
                         value |-> current_token(s).value])
    ELSE IF match(s, {"DOLLAR"})
    THEN Bind(expect(advance(s), "IDENTIFIER"), LAMBDA n:
            Ok(n.s, [kind |-> "VariableRef", column |-> current_token(s).column,
                     name |-> n.node.value]))
    ELSE IF match(s, {"AT"})
    THEN Bind(expect(advance(s), "IDENTIFIER"), LAMBDA n:
         Bind(expect(n.s, "LPAREN"), LAMBDA l:
         Bind(expr_list(l.s, "RPAREN", <<>>), LAMBDA a:
            Ok(a.s, [kind |-> "FunctionCall", column |-> current_token(s).column,
                     callee |-> Identifier(current_token(s), n.node.value),
                     arguments |-> a.node]))))
    ELSE IF match(s, {"OP"}) THEN self("parse_operation_expr", s)
    ELSE IF match(s, {"IF"}) THEN self("parse_if_stmt", s)
    ELSE IF match(s, {"IN"})
    THEN Bind(expect(advance(s), "COLON"), LAMBDA c:
         Bind(self("parse_expression", c.s), LAMBDA e:
         Bind(expect(e.s, "COMMA"), LAMBDA m:
         Bind(self("parse_expression", m.s), LAMBDA k:
            Ok(k.s, [kind |-> "InOp", column |-> current_token(s).column,
                     element |-> e.node, container |-> k.node])))))
    ELSE IF match(s, {"DATA"}) THEN self("parse_data_pipeline", s)
    ELSE IF match(s, {"SELF"})
    THEN Ok(advance(s), Identifier(current_token(s), "self"))
    ELSE IF match(s, {"IDENTIFIER"})
    THEN Ok(advance(s), Identifier(current_token(s), current_token(s).value))
    ELSE IF Len(current_token(s).value) <= 2 /\ match(s, {"INPUT", "OUTPUT", "VAR"})
    THEN Ok(advance(s), Identifier(current_token(s), current_token(s).value))
    ELSE IF match(s, {"LPAREN"})
    THEN Bind(self("parse_expression", advance(s)), LAMBDA e:
         Bind(expect(e.s, "RPAREN"), LAMBDA r: Ok(r.s, e.node)))
    ELSE IF match(s, {"LBRACKET"}) THEN self("parse_array_literal", s)
    ELSE IF match(s, {"LBRACE"}) THEN self("parse_object_literal", s)
    ELSE Err(s, "Unexpected token in expression: " \o current_token(s).type)

\* the operations loop of Parser.parse_data_pipeline
max_ops == 100

\* the node a clause of parse_data_pipeline appends; its column is the
\* current token's once the clause is parsed
data_op(op_type, after, value) ==
    CASE op_type = "FILTER" ->
            [kind |-> "FilterOp", column |-> current_token(after).column,
             condition |-> value]
      [] op_type = "MAP" ->
            [kind |-> "MapOp", column |-> current_token(after).column,
             expression |-> value]
      [] op_type = "GROUPBY" ->
            [kind |-> "GroupByOp", column |-> current_token(after).column,
             field |-> value]
      [] op_type = "AGG" ->
            [kind |-> "AggregateOp", column |-> current_token(after).column,
             function |-> value]
      [] op_type = "SORT" ->
            [kind |-> "SortOp", column |-> current_token(after).column,
             field |-> value, order |-> "asc"]

data_ops_loop(s, operations) ==
    IF match(s, {"PIPE"}) /\ ~match(s, {"NEWLINE", "EOF"}) /\ Len(operations) < max_ops
    THEN IF match(advance(s), {"FILTER", "MAP"})
         THEN Bind(expect(advance(advance(s)), "COLON"), LAMBDA c:
              Bind(self("parse_expression", c.s), LAMBDA e:
                data_ops_loop(e.s, Append(operations,
                    data_op(peek(s, 1).type, e.s, e.node)))))
         ELSE IF match(advance(s), {"GROUPBY", "AGG", "SORT"})
         THEN Bind(expect(advance(advance(s)), "COLON"), LAMBDA c:
              Bind(expect(c.s, "IDENTIFIER"), LAMBDA f:
                data_ops_loop(f.s, Append(operations,
                    data_op(peek(s, 1).type, f.s, f.node.value)))))
         ELSE data_ops_loop(advance(s), operations)
    ELSE Ok(s, operations)

\* Parser.parse_data_pipeline
parse_data_pipeline(s) ==
    Bind(expect(s, "DATA"), LAMBDA t:
    Bind(expect(t.s, "COLON"), LAMBDA c:
    Bind(self("parse_expression", c.s), LAMBDA e:
    Bind(data_ops_loop(e.s, <<>>), LAMBDA o:
    Ok(o.s, [kind |-> "DataPipeline", column |-> t.node.column,
             source |-> e.node, operations |-> o.node])))))

-----------------------------------------------------------------------------
(* Statements                                                              *)

TYPE_TOKENS == {"TYPE_INT", "TYPE_FLOAT", "TYPE_STR", "TYPE_BOOL", "TYPE_ARR",
                "TYPE_OBJ", "TYPE_ANY", "TYPE_VOID", "TYPE_PROMISE",
                "TYPE_FUNC", "TYPE_MAP", "TYPE_SET"}

ASSIGN_OPS == {"EQUALS", "PLUS_EQUALS", "MINUS_EQUALS", "TIMES_EQUALS", "DIV_EQUALS"}

\* op_map of parse_statement / the branches of parse_implicit_variable_or_compound
op_map(type) ==
    CASE type = "PLUS_EQUALS"  -> "+"
      [] type = "MINUS_EQUALS" -> "-"
      [] type = "TIMES_EQUALS" -> "*"
      [] type = "DIV_EQUALS"   -> "/"

\* Parser.parse_type
parse_type(s) ==
    IF match(s, TYPE_TOKENS)
    THEN Ok(advance(s), [kind |-> "Type", column |-> current_token(s).column,
                         name |-> current_token(s).value])
    ELSE Err(s, "Expected type, got " \o current_token(s).type)

\* Parser.parse_type_list
RECURSIVE parse_type_list(_, _)
parse_type_list(s, types) ==
    Bind(parse_type(s), LAMBDA t:
        IF match(t.s, {"COMMA"})
        THEN parse_type_list(advance(t.s), Append(types, t.node))
        ELSE Ok(t.s, Append(types, t.node)))

\* Parser._expr_to_string; any other node falls back to str(expr), the
\* dataclass repr, which starts with the class name
RECURSIVE _expr_to_string(_)
_expr_to_string(expr) ==
    IF expr.kind = "Identifier" THEN expr.name
    ELSE IF expr.kind = "IndexAccess"
    THEN _expr_to_string(expr.object) \o "[" \o _expr_to_string(expr.index) \o "]"
    ELSE IF expr.kind = "MemberAccess"
    THEN _expr_to_string(expr.object) \o "." \o expr.property
    ELSE expr.kind \o "(...)"

VariableDef(column, name, type_annotation, value) ==
    [kind |-> "VariableDef", column |-> column, name |-> name,
     type_annotation |-> type_annotation, value |-> value]

CompoundAssignment(column, name, operator, value) ==
    [kind |-> "CompoundAssignment", column |-> column, name |-> name,
     operator |-> operator, value |-> value]

\* Parser.parse_implicit_variable_or_compound
parse_implicit_variable_or_compound(s) ==
    Bind(expect(s, "IDENTIFIER"), LAMBDA n:
        IF match(n.s, {"PLUS_EQUALS", "MINUS_EQUALS", "TIMES_EQUALS", "DIV_EQUALS"})
        THEN Bind(self("parse_expression", advance(n.s)), LAMBDA v:
                Ok(v.s, CompoundAssignment(n.node.column, n.node.value,
                            op_map(current_token(n.s).type), v.node)))
        ELSE Bind(expect(n.s, "EQUALS"), LAMBDA e:
             Bind(self("parse_expression", e.s), LAMBDA v:
                Ok(v.s, VariableDef(n.node.column, n.node.value, Nil, v.node)))))

\* the optional `:type` of parse_variable_def
optional_annotation(s) ==
    IF match(s, {"COLON"}) THEN parse_type(advance(s)) ELSE Ok(s, Nil)

\* Parser.parse_variable_def
parse_variable_def(s) ==
    Bind(expect(s, "VAR"), LAMBDA t:
    Bind(expect(t.s, "COLON"), LAMBDA c:
    Bind(expect(c.s, "IDENTIFIER"), LAMBDA n:
    Bind(optional_annotation(n.s), LAMBDA a:
    Bind(expect(a.s, "EQUALS"), LAMBDA e:
    Bind(self("parse_expression", e.s), LAMBDA v:
    Ok(v.s, VariableDef(t.node.column, n.node.value, a.node, v.node))))))))

\* Parser.parse_return_stmt
parse_return_stmt(s) ==
    Bind(expect(s, "RET"), LAMBDA t:
    Bind(expect(t.s, "COLON"), LAMBDA c:
    Bind(self("parse_expression", c.s), LAMBDA v:
    Ok(v.s, [kind |-> "ReturnStmt", column |-> t.node.column, value |-> v.node]))))

\* Parser.parse_implicit_call
parse_implicit_call(s) ==
    Bind(self("parse_expression", s), LAMBDA f:
    Ok(f.s, [kind |-> "DirectCall", column |-> current_token(s).column,
             function |-> f.node]))

\* `if stmt: body.append(stmt)`
AppendStmt(body, node) == IF node.kind = "None" THEN body ELSE Append(body, node)

\* the separator step of _parse_function_body: a PIPE that starts no
\* pipeline operation is consumed
skip_separator(s) ==
    IF match(s, {"PIPE"}) /\ ~_is_pipeline_lookahead(s) THEN advance(s) ELSE s

\* the body loop of Parser._parse_function_body.  An iteration that ends
\* with the cursor and the body where they were is repeated for ever.
_parse_function_body(s, stop_tokens, body) ==
    IF current_token(s).type = "NONE" \/ current_token(s).type \in stop_tokens
    THEN Ok(s, body)
    ELSE IF match(s, {"NEWLINE"})
    THEN IF current_token(skip_newlines(s)).type # "NONE"
            /\ current_token(skip_newlines(s)).column = 1
         THEN Ok(skip_newlines(s), body)
         ELSE _parse_function_body(skip_newlines(s), stop_tokens, body)
    ELSE Bind(self("parse_statement", s), LAMBDA st:
            IF skip_separator(st.s) = s THEN Hang(s)
            ELSE _parse_function_body(skip_separator(st.s), stop_tokens,
                                      AppendStmt(body, st.node)))

\* the input types of _parse_function_common: none before a PIPE
input_type_list(s) ==
    IF match(s, {"PIPE"}) THEN Ok(s, <<>>) ELSE parse_type_list(s, <<>>)

\* Parser._parse_function_common
_parse_function_common(s, stop_tokens) ==
    Bind(expect(s, "FN"), LAMBDA t:
    Bind(expect(t.s, "COLON"), LAMBDA c:
    Bind(expect(c.s, "IDENTIFIER"), LAMBDA n:
    Bind(expect(n.s, "PIPE"), LAMBDA p1:
    Bind(expect(p1.s, "INPUT"), LAMBDA i:
    Bind(expect(i.s, "COLON"), LAMBDA ic:
    Bind(input_type_list(ic.s), LAMBDA it:
    Bind(expect(it.s, "PIPE"), LAMBDA p2:
    Bind(expect(p2.s, "OUTPUT"), LAMBDA o:
    Bind(expect(o.s, "COLON"), LAMBDA oc:
    Bind(parse_type(oc.s), LAMBDA ot:
    Bind(expect(ot.s, "PIPE"), LAMBDA p3:
    Bind(_parse_function_body(p3.s, stop_tokens, <<>>), LAMBDA b:
    Ok(b.s, [column |-> t.node.column, name |-> n.node.value,
             input_types |-> it.node, output_type |-> ot.node,
             body |-> b.node]))))))))))))))

\* Parser.parse_function_def
parse_function_def(s) ==
    Bind(_parse_function_common(s, {"EOF", "EXPORT", "FN", "META", "DEPS"}), LAMBDA f:
    Ok(f.s, [kind |-> "FunctionDef", column |-> f.node.column,
             name |-> f.node.name, input_types |-> f.node.input_types,
             output_type |-> f.node.output_type, body |-> f.node.body,
             decorators |-> <<>>]))

\* Parser.parse_function_expr
parse_function_expr(s) ==
    Bind(_parse_function_common(s, {"EOF", "RBRACE", "COMMA"}), LAMBDA f:
    Ok(f.s, [kind |-> "FunctionExpr", column |-> f.node.column,
             name |-> f.node.name, input_types |-> f.node.input_types,
             output_type |-> f.node.output_type, body |-> f.node.body]))

OBJECT_KEY_KEYWORDS == {"INPUT", "OUTPUT", "FN", "META", "VAR", "FOR", "WHILE",
                        "IF", "ELSE", "RET", "EXPORT", "CALL", "OP", "PY"}

\* the value of a pair of parse_object_literal
object_value(s) ==
    IF match(s, {"FN"}) THEN self("parse_function_expr", s)
    ELSE self("parse_expression", s)

\* the pair loop of Parser.parse_object_literal
object_pairs_loop(s, pairs) ==
    IF match(s, {"RBRACE"}) THEN Ok(s, pairs)
    ELSE IF ~match(s, {"IDENTIFIER"} \cup OBJECT_KEY_KEYWORDS)
    THEN Err(s, "Expected object key (identifier or keyword), got "
                \o current_token(s).type)
    ELSE Bind(expect(advance(s), "COLON"), LAMBDA c:
         Bind(object_value(c.s), LAMBDA v:
            object_pairs_loop(IF match(v.s, {"COMMA"}) THEN advance(v.s) ELSE v.s,
                Append(pairs, [key |-> current_token(s).value, value |-> v.node]))))

\* Parser.parse_object_literal
parse_object_literal(s) ==
    Bind(expect(s, "LBRACE"), LAMBDA t:
    Bind(object_pairs_loop(t.s, <<>>), LAMBDA p:
    Bind(expect(p.s, "RBRACE"), LAMBDA r:
    Ok(r.s, [kind |-> "ObjectLiteral", column |-> t.node.column, pairs |-> p.node]))))

\* expected_body_column of parse_if_stmt once the first body token is seen;
\* expected = 0 stands for expected_body_column = None
body_column(expected, s) ==
    IF expected = 0 THEN current_token(s).column ELSE expected

\* the body loops of Parser.parse_if_stmt (block form): the if body with
\* column = the IF token's column, the else body with the ELSE token's
if_body_loop(s, column, expected, body) ==
    IF current_token(s).type \in {"NONE", "EOF"} \/ ~(current_token(s).column > column)
    THEN Ok(s, body)
    ELSE IF current_token(s).column < body_column(expected, s) THEN Ok(s, body)
    ELSE Bind(self("parse_statement", s), LAMBDA st:
            IF match(st.s, {"PIPE", "NEWLINE"})
            THEN With(skip_newlines(advance(st.s)), LAMBDA n:
                    IF current_token(n).type = "NONE"
                       \/ current_token(n).column <= column
                    THEN Ok(n, AppendStmt(body, st.node))
                    ELSE if_body_loop(n, column, body_column(expected, s),
                                      AppendStmt(body, st.node)))
            ELSE IF st.node.kind = "None" /\ current_token(st.s).type # "NONE"
            THEN Ok(st.s, AppendStmt(body, st.node))
            ELSE if_body_loop(st.s, column, body_column(expected, s),
                              AppendStmt(body, st.node)))

\* the branch of a ternary if: ret:value or value
if_branch(s, column) ==
    IF match(s, {"RET"})
    THEN Bind(expect(advance(s), "COLON"), LAMBDA c:
         Bind(self("parse_expression", c.s), LAMBDA v:
            Ok(v.s, [kind |-> "ReturnStmt", column |-> column, value |-> v.node])))
    ELSE self("parse_expression", s)

\* the optional PIPE and the NEWLINEs before a block body
body_start(s) == skip_newlines(IF match(s, {"PIPE"}) THEN advance(s) ELSE s)

IfElseBlock(column, condition, if_body, else_body) ==
    [kind |-> "IfElseBlock", column |-> column, condition |-> condition,
     if_body |-> if_body, else_body |-> else_body]

\* a ternary form that stores its two branches the wrong way round
if_ternary_swapped(s, column, condition) ==
    Bind(if_branch(advance(s), column), LAMBDA tb:
    Bind(expect(tb.s, "COLON"), LAMBDA k:
    Bind(if_branch(k.s, column), LAMBDA fb:
        Ok(fb.s, [kind |-> "IfStmt", column |-> column, condition |-> condition,
                  true_expr |-> fb.node, false_expr |-> tb.node]))))

\* the ternary form of parse_if_stmt, with the cursor on the `?`
if_ternary(s, column, condition) ==
    Bind(if_branch(advance(s), column), LAMBDA tb:
    Bind(expect(tb.s, "COLON"), LAMBDA k:
    Bind(if_branch(k.s, column), LAMBDA fb:
        Ok(fb.s, [kind |-> "IfStmt", column |-> column, condition |-> condition,
                  true_expr |-> tb.node, false_expr |-> fb.node]))))

\* Parser.parse_if_stmt (and parse_if_expr, which calls it).  else_body is
\* the empty sequence where the source stores None for an empty else body.
parse_if_stmt(s) ==
    Bind(expect(s, "IF"), LAMBDA t:
    Bind(expect(t.s, "COLON"), LAMBDA c:
    Bind(self("parse_expression", c.s), LAMBDA cond:
        IF match(cond.s, {"QUESTION"})
        THEN if_ternary(cond.s, t.node.column, cond.node)
        ELSE Bind(if_body_loop(body_start(cond.s), t.node.column, 0, <<>>), LAMBDA ib:
                IF match(ib.s, {"ELSE"})
                THEN Bind(expect(advance(ib.s), "COLON"), LAMBDA ec:
                     Bind(if_body_loop(body_start(ec.s), current_token(ib.s).column,
                                       0, <<>>), LAMBDA eb:
                        Ok(eb.s, IfElseBlock(t.node.column, cond.node,
                                             ib.node, eb.node))))
                ELSE Ok(ib.s, IfElseBlock(t.node.column, cond.node,
                                          ib.node, <<>>))))))

\* the body loop of Parser.parse_for_loop and of Parser.parse_while_loop
\* (the same code twice).  An iteration that ends with the cursor where it
\* was is repeated for ever.
for_body_loop(s, body) ==
    IF current_token(s).type \in {"NONE", "EOF"} THEN Ok(s, body)
    ELSE IF match(s, {"RET", "FN", "META", "DEPS", "EXPORT"}) THEN Ok(s, body)
    ELSE IF match(s, {"NEWLINE"}) THEN for_body_loop(skip_newlines(s), body)
    ELSE Bind(self("parse_statement", s), LAMBDA st:
            IF match(st.s, {"PIPE"}) /\ ~_is_pipeline_lookahead(st.s)
            THEN for_body_loop(advance(st.s), AppendStmt(body, st.node))
            ELSE IF match(st.s, {"PIPE"}) THEN Ok(st.s, AppendStmt(body, st.node))
            ELSE IF st.s = s THEN Hang(s)
            ELSE for_body_loop(st.s, AppendStmt(body, st.node)))

\* Parser.parse_for_loop
parse_for_loop(s) ==
    Bind(expect(s, "FOR"), LAMBDA t:
    Bind(expect(t.s, "COLON"), LAMBDA c:
        IF current_token(c.s).type = "NONE"
        THEN Err(c.s, "Expected variable name in for loop")
        ELSE Bind(expect(advance(c.s), "COMMA"), LAMBDA m:
             Bind(self("parse_expression", m.s), LAMBDA it:
             Bind(expect(it.s, "PIPE"), LAMBDA p:
             Bind(for_body_loop(p.s, <<>>), LAMBDA b:
                Ok(b.s, [kind |-> "ForLoop", column |-> t.node.column,
                         variable |-> current_token(c.s).value,
                         iterable |-> it.node, body |-> b.node])))))))

\* Parser.parse_while_loop
parse_while_loop(s) ==
    Bind(expect(s, "WHILE"), LAMBDA t:
    Bind(expect(t.s, "COLON"), LAMBDA c:
    Bind(self("parse_expression", c.s), LAMBDA cond:
    Bind(expect(cond.s, "PIPE"), LAMBDA p:
    Bind(for_body_loop(p.s, <<>>), LAMBDA b:
    Ok(b.s, [kind |-> "WhileLoop", column |-> t.node.column,
             condition |-> cond.node, body |-> b.node]))))))

\* one decorator of Parser.parse_decorated_statement: the dotted name
RECURSIVE decorator_name(_, _)
decorator_name(s, name) ==
    IF match(s, {"DOT"})
    THEN Bind(expect(advance(s), "IDENTIFIER"), LAMBDA p:
            decorator_name(p.s, name \o "." \o p.node.value))
    ELSE Ok(s, name)

\* the optional argument list of a decorator
decorator_args(s) ==
    IF match(s, {"LPAREN"}) THEN expr_list(advance(s), "RPAREN", <<>>)
    ELSE Ok(s, <<>>)

\* the decorator loop of Parser.parse_decorated_statement
RECURSIVE collect_decorators(_, _)
collect_decorators(s, decorators) ==
    IF ~match(s, {"AT"}) THEN Ok(s, decorators)
    ELSE Bind(expect(advance(s), "IDENTIFIER"), LAMBDA n:
         Bind(decorator_name(n.s, n.node.value), LAMBDA d:
         Bind(decorator_args(d.s), LAMBDA a:
            collect_decorators(skip_newlines(a.s),
                Append(decorators,
                       [kind |-> "Decorator", column |-> current_token(s).column,
                        name |-> d.node, args |-> a.node])))))

\* Parser.parse_decorated_statement (class definitions are not modelled: the
\* inputs hold no CLASS token).  The final else builds the error without
\* raising it, so the method returns None.
parse_decorated_statement(s) ==
    Bind(collect_decorators(s, <<>>), LAMBDA d:
        IF match(d.s, {"FN"})
        THEN Bind(self("parse_function_def", d.s), LAMBDA f:
                Ok(f.s, [f.node EXCEPT !.decorators = d.node]))
        ELSE Ok(d.s, Nil))

\* the a[0] = ... / a.b = ... / a.b(...) statements of parse_statement
parse_target_statement(s) ==
    Bind(self("parse_expression", s), LAMBDA e:
        IF match(e.s, ASSIGN_OPS)
        THEN Bind(self("parse_expression", advance(e.s)), LAMBDA v:
                IF match(e.s, {"EQUALS"})
                THEN Ok(v.s, VariableDef(e.node.column, _expr_to_string(e.node),
                                         Nil, v.node))
                ELSE Ok(v.s, CompoundAssignment(e.node.column,
                                _expr_to_string(e.node),
                                op_map(current_token(e.s).type), v.node)))
        ELSE Ok(e.s, [kind |-> "DirectCall", column |-> e.node.column,
                      function |-> e.node]))

\* Parser.parse_statement; Nil is the None it returns.  class, api, ui,
\* file and py statements are not modelled: the inputs hold none of their
\* tokens.
parse_statement(s) ==
    IF current_token(s).type = "NONE" THEN Ok(s, Nil)
    ELSE IF match(s, {"ELSE"}) THEN Ok(s, Nil)
    ELSE IF match(s, {"AT"}) THEN self("parse_decorated_statement", s)
    ELSE IF match(s, {"FN"}) THEN self("parse_function_def", s)
    ELSE IF match(s, {"VAR"}) THEN self("parse_variable_def", s)
    ELSE IF match(s, {"IDENTIFIER", "SELF"})
    THEN IF peek(s, 1).type \in ASSIGN_OPS
         THEN self("parse_implicit_variable_or_compound", s)
         ELSE IF peek(s, 1).type \in {"LBRACKET", "DOT"}
         THEN self("parse_target_statement", s)
         ELSE IF peek(s, 1).type = "LPAREN" THEN self("parse_implicit_call", s)
         ELSE Err(s, "Unexpected identifier pattern")
    ELSE IF match(s, {"RET"}) THEN self("parse_return_stmt", s)
    ELSE IF match(s, {"IF"}) THEN self("parse_if_stmt", s)
    ELSE IF match(s, {"FOR"}) THEN self("parse_for_loop", s)
    ELSE IF match(s, {"WHILE"}) THEN self("parse_while_loop", s)
    ELSE IF match(s, {"DATA"}) THEN self("parse_data_pipeline", s)
    ELSE Err(s, "Unexpected token: " \o current_token(s).type)

\* the parsing methods by name
self(method, s) ==
    CASE method = "parse_statement" -> parse_statement(s)
      [] method = "parse_expression" -> parse_expression(s)
      [] method = "parse_comparison" -> parse_comparison(s)
      [] method = "parse_term" -> parse_term(s)
      [] method = "parse_factor" -> parse_factor(s)
      [] method = "parse_unary" -> parse_unary(s)
      [] method = "parse_postfix" -> parse_postfix(s)
      [] method = "parse_primary" -> parse_primary(s)
      [] method = "parse_if_stmt" -> parse_if_stmt(s)
      [] method = "parse_data_pipeline" -> parse_data_pipeline(s)
      [] method = "parse_object_literal" -> parse_object_literal(s)
      [] method = "parse_operation_expr" -> parse_operation_expr(s)
      [] method = "parse_array_literal" -> parse_array_literal(s)
      [] method = "parse_filter_op" -> parse_filter_op(s)
      [] method = "parse_map_op" -> parse_map_op(s)
      [] method = "parse_parse_op" -> parse_parse_op(s)
      [] method = "parse_function_def" -> parse_function_def(s)
      [] method = "parse_function_expr" -> parse_function_expr(s)
      [] method = "parse_for_loop" -> parse_for_loop(s)
      [] method = "parse_while_loop" -> parse_while_loop(s)
      [] method = "parse_variable_def" -> parse_variable_def(s)
      [] method = "parse_return_stmt" -> parse_return_stmt(s)
      [] method = "parse_implicit_call" -> parse_implicit_call(s)
      [] method = "parse_implicit_variable_or_compound" -> parse_implicit_variable_or_compound(s)
      [] method = "parse_decorated_statement" -> parse_decorated_statement(s)
      [] method = "parse_target_statement" -> parse_target_statement(s)

\* Parser.parse_metadata
parse_metadata(s) ==
    Bind(expect(s, "META"), LAMBDA t:
    Bind(expect(t.s, "COLON"), LAMBDA c:
    Bind(expect(c.s, "IDENTIFIER"), LAMBDA n:
    Bind(expect(n.s, "COMMA"), LAMBDA c1:
    Bind(expect(c1.s, "IDENTIFIER"), LAMBDA p:
    Bind(expect(p.s, "COMMA"), LAMBDA c2:
    Bind(expect(c2.s, "IDENTIFIER"), LAMBDA g:
    Ok(g.s, [kind |-> "Metadata", column |-> t.node.column, name |-> n.node.value,
             program_type |-> p.node.value, target_language |-> g.node.value]))))))))

\* the list loop of Parser.parse_dependencies
RECURSIVE deps_loop(_, _)
deps_loop(s, deps) ==
    IF match(s, {"RBRACKET"}) THEN Ok(advance(s), deps)
    ELSE Bind(expect(s, "IDENTIFIER"), LAMBDA d:
            deps_loop(IF match(d.s, {"COMMA"}) THEN advance(d.s) ELSE d.s,
                      Append(deps, d.node.value)))

\* the dependency names of parse_dependencies: a bracketed list or one name
dependency_names(s) ==
    IF match(s, {"LBRACKET"}) THEN deps_loop(advance(s), <<>>)
    ELSE Bind(expect(s, "IDENTIFIER"), LAMBDA i: Ok(i.s, <<i.node.value>>))

\* Parser.parse_dependencies
parse_dependencies(s) ==
    Bind(expect(s, "DEPS"), LAMBDA t:
    Bind(expect(t.s, "COLON"), LAMBDA c:
    Bind(dependency_names(c.s), LAMBDA d:
    Ok(d.s, [kind |-> "Dependencies", column |-> t.node.column,
             dependencies |-> d.node]))))

\* Parser.parse_export
parse_export(s) ==
    Bind(expect(s, "EXPORT"), LAMBDA t:
    Bind(expect(t.s, "COLON"), LAMBDA c:
    Bind(expect(c.s, "IDENTIFIER"), LAMBDA n:
    Ok(n.s, [kind |-> "Export", column |-> t.node.column, name |-> n.node.value]))))

-----------------------------------------------------------------------------
(* Source texts                                                            *)

\* Lexer.KEYWORDS, Lexer.TYPES, Lexer.OPERATORS and the delimiter tables of
\* Lexer.tokenize, plus the ELSE, SELF and IN keywords and the FLOOR_DIVIDE
\* operator that the parser reads; any other word is an IDENTIFIER
\* (Lexer.read_identifier), a word of digits a NUMBER (Lexer.read_number).
NUMBER_LEXEMES == {"0", "1", "2", "3", "4", "5", "10", "42", "2.0", "2.5"}

TokenTypeOf(lexeme) ==
    CASE lexeme = "meta" -> "META"     [] lexeme = "deps" -> "DEPS"
      [] lexeme = "export" -> "EXPORT" [] lexeme = "fn" -> "FN"
      [] lexeme = "i" -> "INPUT"       [] lexeme = "o" -> "OUTPUT"
      [] lexeme = "ret" -> "RET"       [] lexeme = "v" -> "VAR"
      [] lexeme = "op" -> "OP"         [] lexeme = "if" -> "IF"
      [] lexeme = "else" -> "ELSE"     [] lexeme = "for" -> "FOR"
      [] lexeme = "while" -> "WHILE"   [] lexeme = "filter" -> "FILTER"
      [] lexeme = "map" -> "MAP"       [] lexeme = "parse" -> "PARSE"
      [] lexeme = "data" -> "DATA"     [] lexeme = "groupBy" -> "GROUPBY"
      [] lexeme = "agg" -> "AGG"       [] lexeme = "sort" -> "SORT"
      [] lexeme = "self" -> "SELF"     [] lexeme = "in" -> "IN"
      [] lexeme = "api" -> "API"       [] lexeme = "async" -> "ASYNC"
      [] lexeme = "ui" -> "UI"         [] lexeme = "state" -> "STATE"
      [] lexeme = "props" -> "PROPS"   [] lexeme = "on" -> "ON"
      [] lexeme = "render" -> "RENDER" [] lexeme = "file" -> "FILE"
      [] lexeme = "ffi" -> "FFI"
      [] lexeme = "int" -> "TYPE_INT"  [] lexeme = "float" -> "TYPE_FLOAT"
      [] lexeme = "str" -> "TYPE_STR"  [] lexeme = "bool" -> "TYPE_BOOL"
      [] lexeme = "arr" -> "TYPE_ARR"  [] lexeme = "obj" -> "TYPE_OBJ"
      [] lexeme = "set" -> "TYPE_SET"  [] lexeme = "any" -> "TYPE_ANY"
      [] lexeme = "void" -> "TYPE_VOID" [] lexeme = "promise" -> "TYPE_PROMISE"
      [] lexeme = "func" -> "TYPE_FUNC"
      [] lexeme = "+" -> "PLUS"        [] lexeme = "-" -> "MINUS"
      [] lexeme = "*" -> "MULTIPLY"    [] lexeme = "/" -> "DIVIDE"
      [] lexeme = "//" -> "FLOOR_DIVIDE" [] lexeme = "%" -> "MODULO"
      [] lexeme = "**" -> "POWER"
      [] lexeme = "==" -> "EQUAL"      [] lexeme = "!=" -> "NOT_EQUAL"
      [] lexeme = "<" -> "LESS_THAN"   [] lexeme = ">" -> "GREATER_THAN"
      [] lexeme = "<=" -> "LESS_EQUAL" [] lexeme = ">=" -> "GREATER_EQUAL"
      [] lexeme = "&&" -> "AND"        [] lexeme = "||" -> "OR"
      [] lexeme = "!" -> "NOT"
      [] lexeme = ":" -> "COLON"       [] lexeme = "|" -> "PIPE"
      [] lexeme = "," -> "COMMA"       [] lexeme = "=" -> "EQUALS"
      [] lexeme = "+=" -> "PLUS_EQUALS" [] lexeme = "-=" -> "MINUS_EQUALS"
      [] lexeme = "*=" -> "TIMES_EQUALS" [] lexeme = "/=" -> "DIV_EQUALS"
      [] lexeme = ".." -> "DOTDOT"     [] lexeme = "?" -> "QUESTION"
      [] lexeme = "$" -> "DOLLAR"      [] lexeme = "@" -> "AT"
      [] lexeme = "(" -> "LPAREN"      [] lexeme = ")" -> "RPAREN"
      [] lexeme = "{" -> "LBRACE"      [] lexeme = "}" -> "RBRACE"
      [] lexeme = "[" -> "LBRACKET"    [] lexeme = "]" -> "RBRACKET"
      [] lexeme = "." -> "DOT"
      [] lexeme \in NUMBER_LEXEMES -> "NUMBER"
      [] OTHER -> "IDENTIFIER"

\* the string literals of the source texts; Lexer.read_string keeps the text
\* between the quotes as the token value
STRING_LEXEMES == {"'hello'", "'a'"}

Unquote(lexeme) == IF lexeme = "'hello'" THEN "hello" ELSE "a"

\* the tokens of a line given as its lexemes
Lx(lexemes) ==
    [k \in 1..Len(lexemes) |->
        IF lexemes[k] \in STRING_LEXEMES
        THEN Tk("STRING", Unquote(lexemes[k]))
        ELSE Tk(TokenTypeOf(lexemes[k]), lexemes[k])]

\* a one-line source
Src(lexemes) == Layout(<<Line(0, Lx(lexemes))>>)

-----------------------------------------------------------------------------
(* Parser.parse, one action per step of its top-level loop                 *)

max_loops == 1000

InitParser ==
    /\ pc = "start"
    /\ pstate = [pos |-> 1, in_pipeline |-> FALSE]
    /\ metadata = Nil
    /\ dependencies = Nil
    /\ statements = <<>>
    /\ export = Nil
    /\ loop_count = 0
    /\ perror = Nil
    /\ errors = <<>>
    /\ symbols = <<>>
    /\ functions = <<>>
    /\ current_function = <<>>
    /\ current_return_type = <<>>
    /\ stmt_index = 0
    /\ returned = <<>>

\* a ParseError leaves parse: no Program is returned
Raise(r) ==
    /\ pc' = IF r.st = "hang" THEN "hang" ELSE "error"
    /\ pstate' = r.s
    /\ perror' = r.node

\* the optional meta: clause that opens parse
header_metadata(s) ==
    IF match(s, {"META"}) THEN parse_metadata(s) ELSE Ok(s, Nil)

\* the optional deps: clause after it
header_dependencies(s) ==
    IF match(s, {"DEPS"}) THEN parse_dependencies(s) ELSE Ok(s, Nil)

\* the step from the header to the statement loop, given what the two
\* clauses returned
EnterLoop(m, d) ==
    IF m.st # "ok"
    THEN Raise(m) /\ UNCHANGED <<metadata, dependencies>>
    ELSE IF d.st # "ok"
    THEN Raise(d) /\ metadata' = m.node /\ UNCHANGED dependencies
    ELSE /\ pc' = "loop"
         /\ pstate' = skip_newlines(d.s)
         /\ metadata' = m.node
         /\ dependencies' = d.node
         /\ UNCHANGED perror

\* Parser.parse up to its statement loop
ParseHeader ==
    /\ pc = "start"
    /\ EnterLoop(header_metadata(skip_newlines(pstate)),
                 header_dependencies(
                     skip_newlines(header_metadata(skip_newlines(pstate)).s)))
    /\ UNCHANGED <<tokens, statements, export, loop_count, checker_vars, outer_vars>>

\* the condition of the statement loop
LoopGuard ==
    /\ current_token(pstate).type \notin {"NONE", "EXPORT", "EOF"}
    /\ loop_count < max_loops

\* an iteration of the statement loop on a NEWLINE
LoopNewline ==
    /\ pc = "loop" /\ LoopGuard
    /\ match(pstate, {"NEWLINE"})
    /\ pstate' = skip_newlines(pstate)
    /\ loop_count' = loop_count + 1
    /\ UNCHANGED <<tokens, pc, metadata, dependencies, statements, export, perror,
                   checker_vars, outer_vars>>

\* an iteration of the statement loop on a PIPE
LoopPipe ==
    /\ pc = "loop" /\ LoopGuard
    /\ match(pstate, {"PIPE"})
    /\ pstate' = advance(pstate)
    /\ loop_count' = loop_count + 1
    /\ UNCHANGED <<tokens, pc, metadata, dependencies, statements, export, perror,
                   checker_vars, outer_vars>>

\* `stmt = self.parse_statement(); if stmt: statements.append(stmt);
\* self.skip_newlines()`, given what parse_statement returned
AppendStatement(r) ==
    IF r.st # "ok"
    THEN Raise(r) /\ UNCHANGED statements
    ELSE /\ statements' = AppendStmt(statements, r.node)
         /\ pstate' = skip_newlines(r.s)
         /\ UNCHANGED <<pc, perror>>

\* an iteration of the statement loop on a statement
LoopStatement ==
    /\ pc = "loop" /\ LoopGuard
    /\ ~match(pstate, {"NEWLINE", "PIPE"})
    /\ loop_count' = loop_count + 1
    /\ AppendStatement(self("parse_statement", pstate))
    /\ UNCHANGED <<tokens, metadata, dependencies, export, checker_vars, outer_vars>>

\* the optional export: clause of parse
trailing_export(s) ==
    IF match(s, {"EXPORT"}) THEN parse_export(s) ELSE Ok(s, Nil)

\* the return of the Program, given what the export clause returned
ReturnProgram(e) ==
    IF e.st # "ok"
    THEN Raise(e) /\ UNCHANGED export
    ELSE /\ pc' = "parsed"
         /\ pstate' = e.s
         /\ export' = e.node
         /\ UNCHANGED perror

\* Parser.parse after its statement loop
ParseExport ==
    /\ pc = "loop" /\ ~LoopGuard
    /\ ReturnProgram(trailing_export(pstate))
    /\ UNCHANGED <<tokens, metadata, dependencies, statements, loop_count,
                   checker_vars, outer_vars>>

-----------------------------------------------------------------------------
(* The type checker                                                        *)

TypeInfo(name, is_numeric, is_collection) ==
    [name |-> name, is_numeric |-> is_numeric, is_collection |-> is_collection]

TYPE_NAMES == {"int", "float", "str", "bool", "arr", "obj", "any", "void",
               "promise", "func", "map", "set"}

\* BUILTIN_TYPES
BUILTIN_TYPES(name) ==
    TypeInfo(name, name \in {"int", "float"}, name \in {"arr", "map", "set"})

\* a table that widens in both directions: int <-> float
TYPE_COMPATIBILITY_both_ways(target) ==
    CASE target = "any"   -> TYPE_NAMES
      [] target = "float" -> {"int", "float"}
      [] target = "int"   -> {"int", "float"}
      [] OTHER            -> {target}

\* TYPE_COMPATIBILITY: target -> allowed sources
TYPE_COMPATIBILITY(target) ==
    CASE target = "any"   -> TYPE_NAMES
      [] target = "float" -> {"int", "float"}
      [] OTHER            -> {target}

\* TypeChecker._resolve_type: a name outside BUILTIN_TYPES is kept as a
\* non-numeric type of that name
_resolve_type(type_node) ==
    IF type_node.name \in TYPE_NAMES THEN BUILTIN_TYPES(type_node.name)
    ELSE TypeInfo(type_node.name, FALSE, FALSE)

\* TypeChecker._types_compatible
_types_compatible(target, source) ==
    IF target.name = "any" \/ source.name = "any" THEN TRUE
    ELSE IF target.name = source.name THEN TRUE
    ELSE IF target.name \in TYPE_NAMES
    THEN source.name \in TYPE_COMPATIBILITY(target.name)
    ELSE FALSE

\* a dict assignment d[key] = value
Put(d, key, value) ==
    [k \in DOMAIN d \cup {key} |-> IF k = key THEN value ELSE d[k]]

\* builtin_returns of TypeChecker._infer_call_type
BUILTIN_RETURN_NAMES == {"len", "str", "int", "float", "bool", "list", "dict",
                         "range", "print", "input", "abs", "min", "max", "sum"}

builtin_returns(func_name) ==
    CASE func_name \in {"len", "int"}     -> BUILTIN_TYPES("int")
      [] func_name \in {"str", "input"}   -> BUILTIN_TYPES("str")
      [] func_name \in {"float", "abs", "sum"} -> BUILTIN_TYPES("float")
      [] func_name = "bool"               -> BUILTIN_TYPES("bool")
      [] func_name \in {"list", "range"}  -> BUILTIN_TYPES("arr")
      [] func_name = "dict"               -> BUILTIN_TYPES("obj")
      [] func_name = "print"              -> BUILTIN_TYPES("void")
      [] func_name \in {"min", "max"}     -> BUILTIN_TYPES("any")

\* TypeChecker._infer_number_type: float only for a float that is no integer
_infer_number_type(num) ==
    IF num.value.is_float /\ num.value.tenths % 10 # 0
    THEN BUILTIN_TYPES("float") ELSE BUILTIN_TYPES("int")

\* TypeChecker._infer_identifier_type
_infer_identifier_type(syms, ident) ==
    IF ident.name \in DOMAIN syms THEN syms[ident.name] ELSE BUILTIN_TYPES("any")

\* TypeChecker._infer_call_type
_infer_call_type(call) ==
    IF call.callee.kind = "Identifier"
    THEN IF call.callee.name \in DOMAIN functions
         THEN functions[call.callee.name].output_type
         ELSE IF call.callee.name \in BUILTIN_RETURN_NAMES
         THEN builtin_returns(call.callee.name)
         ELSE BUILTIN_TYPES("any")
    ELSE BUILTIN_TYPES("any")

\* the operator rules of TypeChecker._infer_operation_type
operation_result_type(operator, left_type, right_type) ==
    IF operator \in {"==", "!=", "<", ">", "<=", ">="} THEN BUILTIN_TYPES("bool")
    ELSE IF operator \in {"and", "or", "&&", "||"} THEN BUILTIN_TYPES("bool")
    ELSE IF operator = "+" /\ (left_type.name = "str" \/ right_type.name = "str")
    THEN BUILTIN_TYPES("str")
    ELSE IF operator \in {"+", "-", "*", "/", "%", "**"}
            /\ (left_type.name = "float" \/ right_type.name = "float")
    THEN BUILTIN_TYPES("float")
    ELSE IF operator \in {"+", "-", "*", "/", "%", "**"}
            /\ left_type.is_numeric /\ right_type.is_numeric
    THEN BUILTIN_TYPES("int")
    ELSE IF operator = "/" THEN BUILTIN_TYPES("float")
    ELSE BUILTIN_TYPES("any")

\* TypeChecker._infer_type and TypeChecker._infer_operation_type
RECURSIVE _infer_type(_, _)
_infer_type(syms, expr) ==
    CASE expr.kind = "NumberLiteral" -> _infer_number_type(expr)
      [] expr.kind = "StringLiteral" -> BUILTIN_TYPES("str")
      [] expr.kind = "BooleanLiteral" -> BUILTIN_TYPES("bool")
      [] expr.kind = "Identifier" -> _infer_identifier_type(syms, expr)
      [] expr.kind = "Operation" ->
            IF Len(expr.operands) = 0 THEN BUILTIN_TYPES("any")
            ELSE LET left_type == _infer_type(syms, expr.operands[1])
                     right_type == IF Len(expr.operands) > 1
                                   THEN _infer_type(syms, expr.operands[2])
                                   ELSE left_type
                 IN operation_result_type(expr.operator, left_type, right_type)
      [] expr.kind = "FunctionCall" -> _infer_call_type(expr)
      [] expr.kind = "ArrayLiteral" -> BUILTIN_TYPES("arr")
      [] expr.kind = "ObjectLiteral" -> BUILTIN_TYPES("obj")
      [] expr.kind = "MemberAccess" -> BUILTIN_TYPES("any")
      [] expr.kind = "DataPipeline" -> BUILTIN_TYPES("arr")
      [] expr.kind = "RangeExpr" -> BUILTIN_TYPES("arr")
      [] expr.kind = "IfStmt" -> BUILTIN_TYPES("any")
      [] expr.kind = "FunctionExpr" -> BUILTIN_TYPES("func")
      [] OTHER -> BUILTIN_TYPES("any")

\* TypeChecker._add_error: the TypeError appended; the message is kept as
\* its parts (what is checked, the subject named, the two types named)
TypeError(what, subject, expected, actual, column) ==
    [kind |-> "TypeError", what |-> what, subject |-> subject,
     expected |-> expected, actual |-> actual, column |-> column]

\* a variable check that records the declared type and reports nothing
_check_variable_def_silent(c, var) ==
    IF var.type_annotation.kind # "None"
    THEN [c EXCEPT !.symbols = Put(@, var.name, _resolve_type(var.type_annotation))]
    ELSE [c EXCEPT !.symbols = Put(@, var.name, _infer_type(c.symbols, var.value))]

\* a definition check that records the inferred type of the value also
\* under an annotation
_check_variable_def_records_inferred(c, var) ==
    LET value_type == _infer_type(c.symbols, var.value) IN
    IF var.type_annotation.kind # "None"
    THEN LET declared_type == _resolve_type(var.type_annotation) IN
         [c EXCEPT
            !.errors = IF ~_types_compatible(declared_type, value_type)
                       THEN Append(@, TypeError("variable", var.name,
                                declared_type.name, value_type.name, var.column))
                       ELSE @,
            !.symbols = Put(@, var.name, value_type)]
    ELSE [c EXCEPT !.symbols = Put(@, var.name, value_type)]

\* TypeChecker._check_variable_def on the checker state c
_check_variable_def(c, var) ==
    LET value_type == _infer_type(c.symbols, var.value) IN
    IF var.type_annotation.kind # "None"
    THEN LET declared_type == _resolve_type(var.type_annotation) IN
         [c EXCEPT
            !.errors = IF ~_types_compatible(declared_type, value_type)
                       THEN Append(@, TypeError("variable", var.name,
                                declared_type.name, value_type.name, var.column))
                       ELSE @,
            !.symbols = Put(@, var.name, declared_type)]
    ELSE [c EXCEPT !.symbols = Put(@, var.name, value_type)]

\* a return check that reports every return of a function with a declared
\* output type, compatible or not
_check_return_strict(c, ret) ==
    IF c.current_return_type = <<>> THEN c
    ELSE [c EXCEPT !.errors = Append(@, TypeError("return",
              c.current_function[1], c.current_return_type[1].name,
              _infer_type(c.symbols, ret.value).name, ret.column))]

\* TypeChecker._check_return
_check_return(c, ret) ==
    IF c.current_return_type = <<>> THEN c
    ELSE LET value_type == _infer_type(c.symbols, ret.value) IN
         IF ~_types_compatible(c.current_return_type[1], value_type)
         THEN [c EXCEPT !.errors = Append(@, TypeError("return",
                   c.current_function[1], c.current_return_type[1].name,
                   value_type.name, ret.column))]
         ELSE c

\* TypeChecker._check_compound_assignment
_check_compound_assignment(c, stmt) ==
    IF stmt.name \in DOMAIN c.symbols
    THEN LET var_type == c.symbols[stmt.name] IN
         IF /\ stmt.operator \in {"+", "-", "*", "/"}
            /\ ~var_type.is_numeric
            /\ ~(stmt.operator = "+" /\ var_type.name = "str")
         THEN [c EXCEPT !.errors = Append(@, TypeError("compound", stmt.name,
                   "numeric", var_type.name, stmt.column))]
         ELSE c
    ELSE c

\* the parameter loop of _check_function: i<idx> -> its declared type
\* the parameters named from i1 on
RECURSIVE bind_parameters_from_one(_, _, _)
bind_parameters_from_one(syms, input_types, n) ==
    IF n = 0 THEN syms
    ELSE Put(bind_parameters_from_one(syms, input_types, n - 1),
             "i" \o ToString(n), _resolve_type(input_types[n]))

RECURSIVE bind_parameters(_, _, _)
bind_parameters(syms, input_types, n) ==
    IF n = 0 THEN syms
    ELSE Put(bind_parameters(syms, input_types, n - 1),
             "i" \o ToString(n - 1), _resolve_type(input_types[n]))

RECURSIVE _check_statement(_, _), check_statements(_, _, _)

\* _check_function without its last two assignments: the function and its
\* return type stay current after the body
_check_function_leaky(c, func) ==
    LET inner == [c EXCEPT
                    !.current_function = <<func.name>>,
                    !.current_return_type = <<_resolve_type(func.output_type)>>,
                    !.symbols = bind_parameters(@, func.input_types,
                                                Len(func.input_types))]
        done == check_statements(inner, func.body, 1)
    IN [done EXCEPT !.symbols = c.symbols]

\* _check_function without `self.symbols = old_symbols`: the parameters and
\* the variables of the body stay in the symbol table
_check_function_keeps_scope(c, func) ==
    LET inner == [c EXCEPT
                    !.current_function = <<func.name>>,
                    !.current_return_type = <<_resolve_type(func.output_type)>>,
                    !.symbols = bind_parameters(@, func.input_types,
                                                Len(func.input_types))]
        done == check_statements(inner, func.body, 1)
    IN [done EXCEPT !.current_function = c.current_function,
                    !.current_return_type = c.current_return_type]

\* TypeChecker._check_function
_check_function(c, func) ==
    LET inner == [c EXCEPT
                    !.current_function = <<func.name>>,
                    !.current_return_type = <<_resolve_type(func.output_type)>>,
                    !.symbols = bind_parameters(@, func.input_types,
                                                Len(func.input_types))]
        done == check_statements(inner, func.body, 1)
    IN [done EXCEPT !.symbols = c.symbols,
                    !.current_function = c.current_function,
                    !.current_return_type = c.current_return_type]

\* TypeChecker._check_statement
_check_statement(c, stmt) ==
    CASE stmt.kind = "FunctionDef" -> _check_function(c, stmt)
      [] stmt.kind = "VariableDef" -> _check_variable_def(c, stmt)
      [] stmt.kind = "ReturnStmt" -> _check_return(c, stmt)
      [] stmt.kind = "CompoundAssignment" -> _check_compound_assignment(c, stmt)
      [] OTHER -> c

\* `for stmt in body: self._check_statement(stmt)`
check_statements(c, body, k) ==
    IF k > Len(body) THEN c
    ELSE check_statements(_check_statement(c, body[k]), body, k + 1)

\* TypeChecker._register_function for every FunctionDef of the program
RECURSIVE register_functions(_, _, _)
register_functions(fns, stmts, k) ==
    IF k > Len(stmts) THEN fns
    ELSE register_functions(
            IF stmts[k].kind = "FunctionDef"
            THEN Put(fns, stmts[k].name,
                     [input_types |-> [j \in 1..Len(stmts[k].input_types) |->
                                          _resolve_type(stmts[k].input_types[j])],
                      output_type |-> _resolve_type(stmts[k].output_type)])
            ELSE fns,
            stmts, k + 1)

\* the checker's fields as one record
Checker == [errors |-> errors, symbols |-> symbols,
            current_function |-> current_function,
            current_return_type |-> current_return_type]

\* the calls of check on one TypeChecker instance
MaxChecks == 2

\* TypeChecker.check, first pass: reset, then collect the signatures
BeginCheck ==
    /\ pc' = "checking"
    /\ errors' = <<>>
    /\ symbols' = <<>>
    /\ functions' = register_functions(<<>>, statements, 1)
    /\ stmt_index' = 1
    /\ UNCHANGED <<current_function, current_return_type>>
    /\ UNCHANGED <<tokens, pstate, metadata, dependencies, statements, export,
                   loop_count, perror, outer_vars>>

\* type_check(self.ast, self.source) of the Compiler: check on a new
\* TypeChecker
CheckRegister ==
    /\ pc = "parsed"
    /\ compiler.type_check_enabled
    /\ BeginCheck

\* check called again on the TypeChecker that has already checked the
\* Program, by a caller that holds the TypeChecker itself; the Compiler makes
\* a new one for its one call
Recheck ==
    /\ pc = "checked"
    /\ compiler.entry = "check"
    /\ Len(returned) < MaxChecks
    /\ BeginCheck

\* the checker's fields after a statement is checked
SetChecker(c) ==
    /\ errors' = c.errors
    /\ symbols' = c.symbols
    /\ current_function' = c.current_function
    /\ current_return_type' = c.current_return_type

\* TypeChecker.check, second pass: one top-level statement
CheckStatement ==
    /\ pc = "checking"
    /\ stmt_index <= Len(statements)
    /\ SetChecker(_check_statement(Checker, statements[stmt_index]))
    /\ stmt_index' = stmt_index + 1
    /\ UNCHANGED <<parser_vars, functions, outer_vars>>

\* TypeChecker.check returns self.errors; the Compiler keeps what its call
\* (the first) returned: `self.type_errors = type_check(...)`
CheckReturn ==
    /\ pc = "checking"
    /\ stmt_index > Len(statements)
    /\ pc' = "checked"
    /\ returned' = Append(returned, errors)
    /\ compiler' = IF returned = <<>>
                   THEN [compiler EXCEPT !.type_errors = errors] ELSE compiler
    /\ UNCHANGED <<tokens, pstate, metadata, dependencies, statements, export,
                   loop_count, perror, checker_vars, lexer>>

-----------------------------------------------------------------------------
(* Compiler.compile and Compiler.compile_with_warnings after parsing       *)

\* Compiler.__init__, and the method that is called on the new Compiler
NewCompiler(entry, type_check_enabled) ==
    [entry |-> entry, type_check_enabled |-> type_check_enabled,
     type_errors |-> <<>>, output |-> Nil, raised |-> Nil, warnings |-> Nil]

\* a Compiler whose two methods both raise on a type error
raises_any_entry(c) == c.type_errors # <<>>

\* `if self.type_errors: raise self.type_errors[0]` is in compile only
raises(c) == c.entry = "compile" /\ c.type_errors # <<>>

RaiseTypeError ==
    /\ pc = "checked"
    /\ raises(compiler)
    /\ pc' = "raised"
    /\ compiler' = [compiler EXCEPT !.raised = compiler.type_errors[1]]
    /\ UNCHANGED <<tokens, pstate, metadata, dependencies, statements, export,
                   loop_count, perror, checker_vars, returned, lexer>>

\* `self.output = self._generate_code()` and the return of either method;
\* the generated text is not modelled
GenerateCode ==
    /\ compiler.entry \in {"compile", "compile_with_warnings"}
    /\ \/ pc = "parsed" /\ ~compiler.type_check_enabled
       \/ pc = "checked" /\ ~raises(compiler)
    /\ pc' = "generated"
    /\ compiler' = [compiler EXCEPT
                      !.output = [kind |-> "Code"],
                      !.warnings = IF compiler.entry = "compile_with_warnings"
                                   THEN compiler.type_errors ELSE Nil]
    /\ UNCHANGED <<tokens, pstate, metadata, dependencies, statements, export,
                   loop_count, perror, checker_vars, returned, lexer>>

-----------------------------------------------------------------------------
(* Lexer: the source is a sequence of characters, pos counts from 0        *)

\* the None that current_char and peek_char return past the end
NoChar == "None"

DIGITS == {"0", "1", "2", "3", "4", "5", "6", "7", "8", "9"}

LETTERS == {"a", "b", "c", "d", "e", "f", "g", "h", "i", "j", "k", "l", "m",
            "n", "o", "p", "q", "r", "s", "t", "u", "v", "w", "x", "y", "z",
            "A", "B", "C", "D", "E", "F", "G", "H", "I", "J", "K", "L", "M",
            "N", "O", "P", "Q", "R", "S", "T", "U", "V", "W", "X", "Y", "Z"}

\* Lexer.KEYWORDS
KEYWORDS == {"meta", "deps", "export", "fn", "i", "o", "ret", "v", "op", "if",
             "for", "while", "api", "async", "filter", "map", "parse", "ui",
             "state", "props", "on", "render", "data", "groupBy", "agg",
             "sort", "file", "ffi"}

\* Lexer.TYPES
TYPES == {"int", "float", "str", "bool", "arr", "obj", "map", "set", "any",
          "void", "promise", "func"}

\* Lexer.OPERATORS
OPERATORS == {"+", "-", "*", "/", "%", "**", "==", "!=", "<", ">", "<=", ">=",
              "&&", "||", "!"}

\* compound_ops of Lexer.tokenize
compound_ops == {"+=", "-=", "*=", "/=", ".."}

\* delimiters of Lexer.tokenize
delimiters == {":", "|", ",", "=", "?", "$", "@", "(", ")", "{", "}", "[", "]"}

Token(type, value, line, column) ==
    [type |-> type, value |-> value, line |-> line, column |-> column]

\* Lexer.__init__
NewLexer(source) ==
    [source |-> source, pos |-> 0, line |-> 1, column |-> 1, tokens |-> <<>>,
     status |-> "running", error |-> Nil]

\* Lexer.current_char
current_char(l) ==
    IF l.pos >= Len(l.source) THEN NoChar ELSE l.source[l.pos + 1]

\* Lexer.peek_char
peek_char(l, offset) ==
    IF l.pos + offset >= Len(l.source) THEN NoChar ELSE l.source[l.pos + offset + 1]

\* Lexer.advance
lexer_advance(l) ==
    IF l.pos >= Len(l.source) THEN l
    ELSE IF l.source[l.pos + 1] = "\n"
    THEN [l EXCEPT !.pos = @ + 1, !.line = @ + 1, !.column = 1]
    ELSE [l EXCEPT !.pos = @ + 1, !.column = @ + 1]

\* Lexer.skip_whitespace
RECURSIVE skip_whitespace(_)
skip_whitespace(l) ==
    IF current_char(l) \in {" ", "\t", "\r"}
    THEN skip_whitespace(lexer_advance(l)) ELSE l

\* Lexer.skip_comment
RECURSIVE skip_comment(_)
skip_comment(l) ==
    IF current_char(l) # NoChar /\ current_char(l) # "\n"
    THEN skip_comment(lexer_advance(l)) ELSE l

\* what a read method does: it returns a token with the lexer moved, or
\* raises the exception named by st
Read(l, token) == [st |-> "ok", l |-> l, token |-> token]
Raised(l, exception) == [st |-> "raise", l |-> l, token |-> exception]

\* a read_number that takes every dot, one before another dot included
RECURSIVE read_number_loop_greedy(_, _, _, _, _)
read_number_loop_greedy(l, num_str, has_decimal, start_line, start_col) ==
    IF /\ current_char(l) \in DIGITS \cup {"."}
       /\ ~(current_char(l) = "." /\ has_decimal)
    THEN read_number_loop_greedy(lexer_advance(l), num_str \o current_char(l),
                                 has_decimal \/ current_char(l) = ".",
                                 start_line, start_col)
    ELSE Read(l, Token("NUMBER", num_str, start_line, start_col))

\* the while loop of Lexer.read_number
RECURSIVE read_number_loop(_, _, _, _, _)
read_number_loop(l, num_str, has_decimal, start_line, start_col) ==
    IF /\ current_char(l) \in DIGITS \cup {"."}
       /\ ~(current_char(l) = "." /\ peek_char(l, 1) = ".")
       /\ ~(current_char(l) = "." /\ has_decimal)
    THEN read_number_loop(lexer_advance(l), num_str \o current_char(l),
                          has_decimal \/ current_char(l) = ".",
                          start_line, start_col)
    ELSE Read(l, Token("NUMBER", num_str, start_line, start_col))

\* Lexer.read_number
read_number(l) == read_number_loop(l, "", FALSE, l.line, l.column)

LexerError(message, line, column) ==
    [type |-> "LexerError", message |-> message, line |-> line, column |-> column]

\* `string_val += escape_char` with escape_char None: Python's TypeError
NoneTypeError == [type |-> "TypeError", message |-> "can only concatenate str"]

\* the escape sequences of Lexer.read_string
escape(escape_char) ==
    CASE escape_char = "n" -> "\n"
      [] escape_char = "t" -> "\t"
      [] OTHER -> escape_char

\* the end of Lexer.read_string: the closing quote, or LexerError at the
\* opening quote
read_string_end(l, quote_char, string_val, start_line, start_col) ==
    IF current_char(l) = quote_char
    THEN Read(lexer_advance(l), Token("STRING", string_val, start_line, start_col))
    ELSE Raised(l, LexerError("Unterminated string literal", start_line, start_col))

\* the while loop of Lexer.read_string
RECURSIVE read_string_loop(_, _, _, _, _, _)
read_string_loop(l, quote_char, string_val, interpolation_depth, start_line, start_col) ==
    IF current_char(l) = NoChar
    THEN read_string_end(l, quote_char, string_val, start_line, start_col)
    ELSE IF current_char(l) = "$" /\ peek_char(l, 1) = "{"
    THEN read_string_loop(lexer_advance(lexer_advance(l)), quote_char,
                          string_val \o "${", interpolation_depth + 1,
                          start_line, start_col)
    ELSE IF interpolation_depth > 0
    THEN read_string_loop(lexer_advance(l), quote_char,
                          string_val \o current_char(l),
                          CASE current_char(l) = "{" -> interpolation_depth + 1
                            [] current_char(l) = "}" -> interpolation_depth - 1
                            [] OTHER -> interpolation_depth,
                          start_line, start_col)
    ELSE IF current_char(l) = quote_char
    THEN read_string_end(l, quote_char, string_val, start_line, start_col)
    ELSE IF current_char(l) = "\\"
    THEN IF peek_char(l, 1) = NoChar
         THEN Raised(lexer_advance(l), NoneTypeError)
         ELSE read_string_loop(lexer_advance(lexer_advance(l)), quote_char,
                               string_val \o escape(peek_char(l, 1)),
                               interpolation_depth, start_line, start_col)
    ELSE read_string_loop(lexer_advance(l), quote_char,
                          string_val \o current_char(l), interpolation_depth,
                          start_line, start_col)

\* Lexer.read_string
read_string(l) ==
    read_string_loop(lexer_advance(l), current_char(l), "", 0, l.line, l.column)

\* Lexer.read_identifier: a keyword, then a type name, else an identifier
identifier_type(identifier) ==
    IF identifier \in KEYWORDS \cup TYPES
    THEN TokenTypeOf(identifier) ELSE "IDENTIFIER"

RECURSIVE read_identifier_loop(_, _, _, _)
read_identifier_loop(l, identifier, start_line, start_col) ==
    IF current_char(l) \in LETTERS \cup DIGITS \cup {"_", "-"}
    THEN read_identifier_loop(lexer_advance(l), identifier \o current_char(l),
                              start_line, start_col)
    ELSE Read(l, Token(identifier_type(identifier), identifier,
                       start_line, start_col))

read_identifier(l) == read_identifier_loop(l, "", l.line, l.column)

\* `self.tokens.append(token)`
append(l, token) == [l EXCEPT !.tokens = Append(@, token)]

\* `self.tokens.append(self.read_...())`: an exception leaves tokenize, and
\* no token list is returned
append_read(r) ==
    IF r.st = "ok" THEN append(r.l, r.token)
    ELSE [r.l EXCEPT !.status = r.token.type, !.error = r.token]

\* a token at the current position, and one advance
append_here(l, type, value) ==
    lexer_advance(append(l, Token(type, value, l.line, l.column)))

\* the character an iteration of the loop of Lexer.tokenize looks at, after
\* skip_whitespace
AtChar == current_char(skip_whitespace(lexer))

\* `two_char = char + (self.peek_char() or '')`
two_char(l) ==
    IF peek_char(l, 1) = NoChar THEN current_char(l)
    ELSE current_char(l) \o peek_char(l, 1)

Lexing == lexer.status = "running"

LexerIdle == UNCHANGED <<parser_vars, checker_vars, returned, compiler>>

\* Lexer.tokenize, one action per kind of iteration of its loop
LexComment ==
    /\ Lexing
    /\ AtChar = "#"
    /\ lexer' = skip_comment(skip_whitespace(lexer))
    /\ LexerIdle

LexNewline ==
    /\ Lexing
    /\ AtChar = "\n"
    /\ lexer' = append_here(skip_whitespace(lexer), "NEWLINE", "\\n")
    /\ LexerIdle

LexNumber ==
    /\ Lexing
    /\ AtChar \in DIGITS
    /\ lexer' = append_read(read_number(skip_whitespace(lexer)))
    /\ LexerIdle

\* `..` is DOTDOT, a dot before a digit starts a number, any other dot is DOT
LexDot ==
    /\ Lexing
    /\ AtChar = "."
    /\ lexer' = IF peek_char(skip_whitespace(lexer), 1) = "."
                THEN lexer_advance(append_here(skip_whitespace(lexer), "DOTDOT", ".."))
                ELSE IF peek_char(skip_whitespace(lexer), 1) \in DIGITS
                THEN append_read(read_number(skip_whitespace(lexer)))
                ELSE append_here(skip_whitespace(lexer), "DOT", ".")
    /\ LexerIdle

LexString ==
    /\ Lexing
    /\ AtChar \in {"\"", "'"}
    /\ lexer' = append_read(read_string(skip_whitespace(lexer)))
    /\ LexerIdle

LexIdentifier ==
    /\ Lexing
    /\ AtChar \in LETTERS \cup {"_"}
    /\ lexer' = append_read(read_identifier(skip_whitespace(lexer)))
    /\ LexerIdle

\* the two-character operators, the compound assignments, then the
\* one-character operators
LexOperator ==
    /\ Lexing
    /\ AtChar \notin DIGITS \cup LETTERS \cup {NoChar, "#", "\n", ".", "\"", "'", "_"}
    /\ \/ two_char(skip_whitespace(lexer)) \in OPERATORS \cup compound_ops
       \/ AtChar \in OPERATORS
    /\ lexer' = IF two_char(skip_whitespace(lexer)) \in OPERATORS \cup compound_ops
                THEN append_read(
                        [st |-> "ok",
                         l |-> lexer_advance(lexer_advance(skip_whitespace(lexer))),
                         token |-> Token(TokenTypeOf(two_char(skip_whitespace(lexer))),
                                         two_char(skip_whitespace(lexer)),
                                         skip_whitespace(lexer).line,
                                         skip_whitespace(lexer).column)])
                ELSE append_here(skip_whitespace(lexer), TokenTypeOf(AtChar), AtChar)
    /\ LexerIdle

LexDelimiter ==
    /\ Lexing
    /\ AtChar \in delimiters
    /\ two_char(skip_whitespace(lexer)) \notin OPERATORS \cup compound_ops
    /\ lexer' = append_here(skip_whitespace(lexer), TokenTypeOf(AtChar), AtChar)
    /\ LexerIdle

\* Unknown character: LexerError where the character is
LexUnexpected ==
    /\ Lexing
    /\ AtChar \notin DIGITS \cup LETTERS \cup OPERATORS \cup delimiters
                     \cup {NoChar, "#", "\n", ".", "\"", "'", "_"}
    /\ two_char(skip_whitespace(lexer)) \notin OPERATORS \cup compound_ops
    /\ lexer' = append_read(
                    Raised(skip_whitespace(lexer),
                           LexerError("Unexpected character",
                                      skip_whitespace(lexer).line,
                                      skip_whitespace(lexer).column)))
    /\ LexerIdle

\* a tokenize that returns without the EOF token
tokenize_end_without_eof(l) == [l EXCEPT !.status = "returned"]

\* after the loop: `self.tokens.append(Token(TokenType.EOF, ...))`,
\* `return self.tokens`
tokenize_end(l) ==
    [append(l, Token("EOF", "", l.line, l.column)) EXCEPT !.status = "returned"]

LexReturn ==
    /\ Lexing
    /\ AtChar = NoChar
    /\ lexer' = tokenize_end(skip_whitespace(lexer))
    /\ LexerIdle

-----------------------------------------------------------------------------
(* The programs compiled: source texts, given line by line as lexemes      *)

MaxStmts == 3      \* assignments joined by `|` on one line
MaxClauses == 2    \* pipeline clauses after a data: source
MaxOperators == 2  \* binary operators of a flat expression
MaxStray == 2      \* tokens of a body made of arbitrary tokens
MaxBodyLines == 2  \* statements of a function body laid out on lines
MaxReturns == 2    \* ret: statements in one function body

\* the sequences over S of lo..hi elements
SeqsOf(S, lo, hi) == UNION {[1..k -> S] : k \in lo..hi}

\* the parts one after another, each preceded by the lexemes of sep
RECURSIVE PrefixAll(_, _)
PrefixAll(parts, sep) ==
    IF parts = <<>> THEN <<>>
    ELSE sep \o Head(parts) \o PrefixAll(Tail(parts), sep)

\* the parts one after another with the lexemes of sep between them
JoinWith(parts, sep) ==
    IF parts = <<>> THEN <<>> ELSE Head(parts) \o PrefixAll(Tail(parts), sep)

\* x=5|y=10|...
SIMPLE_ASSIGNMENTS == {<<"x", "=", "5">>, <<"y", "=", "10">>, <<"z", "=", "x">>}

AssignChainSources ==
    {Src(JoinWith(c, <<"|">>)) : c \in SeqsOf(SIMPLE_ASSIGNMENTS, 1, MaxStmts)}

\* data:source|clause|clause...
DATA_SOURCES == {<<"[", "1", ",", "2", ",", "3", "]">>, <<"items">>}

PIPELINE_CLAUSES == {<<"filter", ":", "item", ">", "1">>,
                     <<"map", ":", "item", "*", "2">>,
                     <<"parse", ":", "json">>}

DataChainSources ==
    {Src(<<"data", ":">> \o d \o PrefixAll(c, <<"|">>)) :
        d \in DATA_SOURCES, c \in SeqsOf(PIPELINE_CLAUSES, 0, MaxClauses)}

\* r=operand op operand op ...
BINARY_LEXEMES == {"||", "&&", "==", "<", "+", "-", "*", "/", "%"}

FLAT_OPERANDS == {<<"a">>, <<"-", "b">>}

FlatExpression(operands, operators) ==
    operands[1] \o
    PrefixAll([k \in 1..Len(operators) |-> <<operators[k]>> \o operands[k + 1]], <<>>)

FlatExpressionSources ==
    UNION {{Src(<<"r", "=">> \o FlatExpression(operands, operators)) :
              operands \in [1..(n + 1) -> FLAT_OPERANDS],
              operators \in [1..n -> BINARY_LEXEMES]} : n \in 0..MaxOperators}

\* if:cond?a:b on one line, and if:cond / body / else: / body on lines
IF_CONDITIONS == {<<"x", ">", "0">>, <<"x">>}

IF_BRANCHES == {<<"1">>, <<"-", "1">>, <<"ret", ":", "x">>}

BLOCK_STATEMENTS == {<<"y", "=", "1">>, <<"y", "=", "0">>}

TernarySources ==
    {Src(<<"if", ":">> \o c \o <<"?">> \o a \o <<":">> \o b) :
        c \in IF_CONDITIONS, a \in IF_BRANCHES, b \in IF_BRANCHES}

\* an if: in a branch of a ternary: [x=]if:a?T:F
NESTED_BRANCHES == {<<"1">>, <<"if", ":", "b">>,
                    <<"if", ":", "b", "|", "y", "=", "1">>,
                    <<"if", ":", "b", "?", "1", ":", "2">>}

NestedIfSources ==
    {Src(p \o <<"if", ":", "a", "?">> \o a \o <<":">> \o b) :
        p \in {<<>>, <<"x", "=">>}, a \in NESTED_BRANCHES, b \in NESTED_BRANCHES}

Indented(indent, stmts) == [k \in 1..Len(stmts) |-> Line(indent, Lx(stmts[k]))]

IfBlockSources ==
    {Layout(<<Line(0, Lx(<<"if", ":">> \o c))>> \o Indented(2, ib)
            \o (IF eb = <<>> THEN <<>>
                ELSE <<Line(0, Lx(<<"else", ":">>))>> \o Indented(2, eb))) :
        c \in IF_CONDITIONS,
        ib \in SeqsOf(BLOCK_STATEMENTS, 1, MaxBodyLines),
        eb \in SeqsOf(BLOCK_STATEMENTS, 0, MaxBodyLines)}

\* a function header or a loop header followed by arbitrary tokens
STRAY_LEXEMES == {"else", "x", "=", "1", "|", "ret", ":"}

FN_HEADER == <<"fn", ":", "f", "|", "i", ":", "|", "o", ":", "int", "|">>

FOR_HEADER == <<"for", ":", "k", ",", "items", "|">>

WHILE_HEADER == <<"while", ":", "x", ">", "0", "|">>

StraySources ==
    {Src(h \o b) : h \in {FN_HEADER, FOR_HEADER, WHILE_HEADER},
                   b \in SeqsOf(STRAY_LEXEMES, 1, MaxStray)}

\* a function whose body is laid out on indented lines, followed by a
\* statement that starts at column 1
BODY_ITEMS ==
    {<<Line(2, Lx(<<"y", "=", "1">>))>>,
     <<Line(2, Lx(<<"if", ":", "x", ">", "0">>)), Line(4, Lx(<<"y", "=", "1">>))>>,
     <<Line(2, Lx(FOR_HEADER)), Line(4, Lx(<<"y", "=", "1">>))>>,
     <<Line(2, Lx(WHILE_HEADER)), Line(4, Lx(<<"y", "=", "1">>))>>}

FunctionLayoutSources ==
    {Layout(<<Line(0, Lx(FN_HEADER))>> \o JoinWith(items, <<>>)
            \o <<Line(0, Lx(<<"z", "=", "2">>))>>) :
        items \in SeqsOf(BODY_ITEMS, 1, MaxBodyLines)}

\* typed programs: fn:f|i:int,str|o:T|ret:E|ret:E..., v:x:T=E, x=E
DECLARED_TYPES == {"int", "float", "str", "any"}

VALUE_EXPRESSIONS == {<<"1">>, <<"2.5">>, <<"'a'">>, <<"i0">>, <<"i0", "+", "i0">>}

TYPED_HEADER(T) ==
    <<"fn", ":", "f", "|", "i", ":", "int", ",", "str", "|", "o", ":", T, "|">>

ReturnSources ==
    {Src(TYPED_HEADER(T)
         \o JoinWith([k \in 1..Len(es) |-> <<"ret", ":">> \o es[k]], <<"|">>)) :
        T \in DECLARED_TYPES, es \in SeqsOf(VALUE_EXPRESSIONS, 1, MaxReturns)}
    \cup {Src(<<"ret", ":">> \o e) : e \in VALUE_EXPRESSIONS}

VariableDefSources ==
    {Src(<<"v", ":", "x", ":", T, "=">> \o e) :
        T \in DECLARED_TYPES, e \in VALUE_EXPRESSIONS}
    \cup {Src(TYPED_HEADER("any") \o <<"v", ":", "x", ":", T, "=">> \o e) :
            T \in DECLARED_TYPES, e \in VALUE_EXPRESSIONS}
    \cup {Src(<<"x", "=">> \o e) : e \in VALUE_EXPRESSIONS}
    \cup {Src(<<"v", ":", "x", "=">> \o e) : e \in VALUE_EXPRESSIONS}

\* functions of 0..MaxParams inputs that use a parameter name:
\*   [iK='a' newline] fn:f|i:T,..|o:any|[i0=2.5| or v:i1:str='a'|]v:x:P=iK
MaxParams == 2

ParamName(k) == "i" \o ToString(k)

PARAM_NAMES == {ParamName(k) : k \in 0..(MaxParams - 1)}

OUTER_LINES ==
    {<<>>} \cup {<<Line(0, Lx(<<nm, "=", "'a'">>))>> : nm \in PARAM_NAMES}

BODY_REDEFINITIONS ==
    {<<>>, <<"i0", "=", "2.5", "|">>, <<"v", ":", "i1", ":", "str", "=", "'a'", "|">>}

ParameterSources ==
    {Layout(outer \o
            <<Line(0, Lx(<<"fn", ":", "f", "|", "i", ":">>
                         \o JoinWith([k \in 1..Len(Ts) |-> <<Ts[k]>>], <<",">>)
                         \o <<"|", "o", ":", "any", "|">> \o redef
                         \o <<"v", ":", "x", ":", P, "=", nm>>))>>) :
        outer \in OUTER_LINES, Ts \in SeqsOf({"int", "str"}, 0, MaxParams),
        redef \in BODY_REDEFINITIONS, P \in {"int", "str"}, nm \in PARAM_NAMES}

DIVISION_OPERANDS == {"4", "2", "2.5", "'a'", "y"}

DivisionSources ==
    {Src(<<"v", ":", "x", ":", T, "=", a, "/", b>>) :
        T \in {"int", "float"}, a \in DIVISION_OPERANDS, b \in DIVISION_OPERANDS}

\* v:a:S=q|v:x:T=a: a value of declared type S under the annotation T
TYPE_LEXEMES == {"int", "float", "str", "bool", "arr", "obj", "set", "any",
                 "void", "promise", "func"}

TypePairSources ==
    {Src(<<"v", ":", "a", ":", S, "=", "q", "|", "v", ":", "x", ":", T, "=", "a">>) :
        S \in TYPE_LEXEMES, T \in TYPE_LEXEMES}

\* the prefix form with 0..MaxOperands operands: r=op:+(a,b,...)
MaxOperands == 3

OperationSources ==
    {Src(<<"r", "=", "op", ":", o, "(">> \o JoinWith(args, <<",">>) \o <<")">>) :
        o \in {"+", "-", "!"},
        args \in SeqsOf({<<"a">>, <<"-", "b">>}, 0, MaxOperands)}

\* each type name in a declaration and in a signature:
\* v:x:T=1 and fn:f|i:T|o:T|ret:1
TypeNameSources ==
    {Src(<<"v", ":", "x", ":", T, "=", "1">>) : T \in TYPES}
    \cup {Src(<<"fn", ":", "f", "|", "i", ":", T, "|", "o", ":", T, "|", "ret", ":", "1">>) :
            T \in TYPES}

\* object literals whose key is an identifier or a reserved word: x={k:1}
OBJECT_KEYS == {"name", "else"} \cup KEYWORDS \cup TYPES

ObjectKeySources ==
    {Src(<<"x", "=", "{", k, ":", "1", "}">>) : k \in OBJECT_KEYS}
    \cup {Src(<<"x", "=", "{", "name", ":", "1", ",", "if", ":", "2", "}">>)}

\* the examples of the documentation and of the tests
ExampleSources ==
    {Src(<<"data", ":", "[", "1", ",", "2", ",", "3", "]", "|", "filter", ":",
           "item", ">", "1", "|", "map", ":", "item", "*", "2">>),
     Src(<<"x", "=", "5", "|", "y", "=", "10">>),
     Src(<<"if", ":", "x", ">", "0", "?", "1", ":", "-", "1">>),
     Layout(<<Line(0, Lx(<<"if", ":", "x", ">", "0">>)),
              Line(2, Lx(<<"y", "=", "1">>)),
              Line(0, Lx(<<"else", ":">>)),
              Line(2, Lx(<<"y", "=", "0">>))>>),
     Src(<<"v", ":", "x", ":", "int", "=", "'hello'">>),
     Src(<<"v", ":", "x", ":", "int", "=", "42">>),
     Src(<<"v", ":", "x", ":", "float", "=", "42">>),
     Src(<<"fn", ":", "add", "|", "i", ":", "int", ",", "int", "|", "o", ":", "str",
           "|", "ret", ":", "i0", "+", "i1">>),
     Src(<<"fn", ":", "add", "|", "i", ":", "int", ",", "int", "|", "o", ":", "str",
           "|", "ret", ":", "op", ":", "+", "(", "i0", ",", "i1", ")">>),
     Src(<<"fn", ":", "add", "|", "i", ":", "int", ",", "int", "|", "o", ":", "int",
           "|", "ret", ":", "i0", "+", "i1">>),
     Src(<<"else">>),
     Src(<<"x", "=", "1", "|", "export", ":", "main", "y", "=", "2">>),
     Src(<<"r", "=", "!", "a", "&&", "b">>),
     Src(<<"r", "=", "a", "+", "b", "*", "c">>),
     Src(<<"r", "=", "a", "-", "b", "-", "c">>),
     Layout(<<Line(0, Lx(<<"x", "=", "1", "|">>)),
              Line(0, Lx(<<"y", "=", "2">>))>>),
     Layout(<<Line(0, Lx(<<"meta", ":", "demo", ",", "script", ",", "python">>)),
              Line(0, Lx(<<"deps", ":", "[", "math", ",", "json", "]">>)),
              Line(0, Lx(<<"x", "=", "1">>)),
              Line(0, Lx(<<"export", ":", "main">>))>>)}

\* a mistyped statement inside a ternary branch, a loop body or an if block:
\* fn:f|i:int|o:int|if:c?ret:V:ret:W, for:k,items|v:x:int=V,
\* while:c|v:x:int=V, and if:c over an indented v:x:int=V
NESTED_VALUES == {<<"1">>, <<"'a'">>}

NestedStatementSources ==
    {Src(<<"fn", ":", "f", "|", "i", ":", "int", "|", "o", ":", "int", "|",
           "if", ":", "c", "?", "ret", ":">> \o V \o <<":", "ret", ":">> \o W) :
        V \in NESTED_VALUES, W \in NESTED_VALUES}
    \cup {Src(h \o <<"v", ":", "x", ":", "int", "=">> \o V) :
            h \in {FOR_HEADER, <<"while", ":", "c", "|">>}, V \in NESTED_VALUES}
    \cup {Layout(<<Line(0, Lx(<<"if", ":", "c">>)),
                   Line(2, Lx(<<"v", ":", "x", ":", "int", "=">> \o V))>>) :
            V \in NESTED_VALUES}

\* r=items|clause|clause... where a clause may be cut short or malformed
BROKEN_CLAUSES == {<<"filter", ":">>, <<"map", ":", ")">>, <<"parse", ":", "1">>}

BrokenChainSources ==
    {Src(<<"r", "=", "items">> \o PrefixAll(c, <<"|">>)) :
        c \in SeqsOf(PIPELINE_CLAUSES \cup BROKEN_CLAUSES, 1, MaxClauses)}

\* a statement that starts with a name: the name, member accesses, index
\* accesses and calls after it, then an assignment, nothing, or a stray token
MaxAccesses == 2

ACCESSES == {<<".", "f">>, <<"[", "k", "]">>, <<"[", "0", "]">>, <<"(", ")">>}

TARGET_TAILS == {<<"=", "1">>, <<"+=", "1">>, <<"-=", "1">>, <<"*=", "1">>,
                 <<"/=", "1">>, <<>>, <<":", "1">>}

TargetSources ==
    {Src(<<h>> \o PrefixAll(a, <<>>) \o tail) :
        h \in {"a", "self"}, a \in SeqsOf(ACCESSES, 0, MaxAccesses),
        tail \in TARGET_TAILS}

\* a block if: (with or without an else: block) whose last block holds an
\* assignment or a one-line loop, followed by z=2 at some indentation
BLOCK_LINES == {<<"y", "=", "1">>,
                FOR_HEADER \o <<"y", "=", "1">>,
                <<"while", ":", "c", "|", "y", "=", "1">>}

IF_INDENTS == {0, 2}

DEDENT_INDENTS == {0, 1, 2, 3, 4}

IfDedentSources ==
    {Layout(<<Line(h, Lx(<<"if", ":", "c">>))>>
            \o (IF e THEN <<Line(h + 2, Lx(<<"y", "=", "1">>)),
                            Line(h, Lx(<<"else", ":">>))>>
                ELSE <<>>)
            \o <<Line(h + 2, Lx(b)), Line(d, Lx(<<"z", "=", "2">>))>>) :
        h \in IF_INDENTS, e \in BOOLEAN, b \in BLOCK_LINES, d \in DEDENT_INDENTS}

\* a definition of x, annotated or not, then a use of x under an
\* annotation: v:x:T=E|v:y:U=x and v:x=E|v:y:U=x
RECORDED_ANNOTATIONS == {<<>>, <<":", "int">>, <<":", "float">>, <<":", "str">>}

RECORDED_VALUES == {"42", "2.5", "'hello'"}

RecordedTypeSources ==
    {Src(<<"v", ":", "x">> \o a \o <<"=", e, "|", "v", ":", "y", ":", U, "=", "x">>) :
        a \in RECORDED_ANNOTATIONS, e \in RECORDED_VALUES, U \in {"int", "float", "str"}}

\* a function with a parameter and a body variable, after an optional outer
\* definition of i0 (indented by one blank, so that no two statements of the
\* text share a column), followed by a statement that names them or returns
AFTER_LINES == {<<"v", ":", "y", ":", "str", "=", "i0">>,
                <<"v", ":", "y", ":", "int", "=", "i0">>,
                <<"v", ":", "y", ":", "str", "=", "w">>,
                <<"ret", ":", "'a'">>}

FrameSources ==
    {Layout(outer
            \o <<Line(0, Lx(<<"fn", ":", "f", "|", "i", ":", "int", "|", "o", ":", "int", "|",
                              "v", ":", "w", ":", "int", "=", "1", "|", "ret", ":", "1">>)),
                 Line(0, Lx(after))>>) :
        outer \in {<<>>, <<Line(1, Lx(<<"v", ":", "i0", ":", "str", "=", "'a'">>))>>},
        after \in AFTER_LINES}

\* 1..MaxDecorators decorator lines, then a function, another statement,
\* or the end of the text
MaxDecorators == 2

DECORATORS == {<<"@", "app">>, <<"@", "a", ".", "b", "(", "1", ")">>}

DECORATED_LINES == {<<"fn", ":", "f", "|", "i", ":", "|", "o", ":", "int", "|", "ret", ":", "1">>,
                    <<"x", "=", "1">>, <<"ret", ":", "1">>}

DecoratorSources ==
    {Layout([k \in 1..Len(ds) |-> Line(0, Lx(ds[k]))] \o after) :
        ds \in SeqsOf(DECORATORS, 1, MaxDecorators),
        after \in {<<>>} \cup {<<Line(0, Lx(l))>> : l \in DECORATED_LINES}}

Sources ==
    ExampleSources \cup AssignChainSources \cup DataChainSources
    \cup FlatExpressionSources \cup TernarySources \cup IfBlockSources
    \cup StraySources \cup FunctionLayoutSources \cup ReturnSources
    \cup VariableDefSources \cup DivisionSources \cup TypePairSources
    \cup ParameterSources \cup NestedIfSources \cup ObjectKeySources
    \cup TypeNameSources \cup OperationSources \cup NestedStatementSources
    \cup BrokenChainSources \cup TargetSources
    \cup IfDedentSources \cup RecordedTypeSources
    \cup FrameSources \cup DecoratorSources

-----------------------------------------------------------------------------
(* The texts tokenized, given character by character                       *)

MaxDotted == 5     \* characters of a text of digits and dots
MaxStringLen == 4  \* characters after the opening quote of a string
MaxMixed == 3      \* characters of a text of mixed characters

DottedSources ==
    SeqsOf({"1", "."}, 0, MaxDotted)
    \cup {<<"0", ".", ".", "1", "0">>, <<"1", ".", "2", ".", "3">>}

StringSources ==
    {<<"'">> \o body : body \in SeqsOf({"a", "'", "\\", "$", "{", "}"}, 0, MaxStringLen)}
    \cup {<<"x", "=", "'", "u", "n">>, <<"\n", "\n", " ", " ", "'", "a", "b">>,
          <<"x", "=", "'", "a", "\\">>,
          <<"\"", "a", "'">>, <<"\"", "\\">>, <<"\"", "a", "\"">>,
          <<"'", "\\", "n", "\\", "t", "'">>, <<"'", "a", "\n", "b", "'", " ", "'">>}

MixedSources == SeqsOf({"x", " ", "#", "\n", "1", "+", "=", "~"}, 0, MaxMixed)

LexerSources == DottedSources \cup StringSources \cup MixedSources

-----------------------------------------------------------------------------
(* Compiler.compile: tokenize, Parser.parse, then TypeChecker.check        *)

\* the programs compiled with every entry point and option, and checked by
\* a caller of TypeChecker.check
OptionSources == ReturnSources \cup VariableDefSources

\* no Compiler: the Program is handed to TypeChecker(source).check(ast)
DirectCheck == NewCompiler("check", TRUE)

\* the token lists of this specification are given: no Lexer runs
NoLexer == [status |-> "idle"]

Init ==
    /\ InitParser
    /\ lexer = NoLexer
    /\ \/ /\ tokens \in Sources
          /\ compiler = NewCompiler("compile", TRUE)
       \/ /\ tokens \in OptionSources
          /\ compiler \in {NewCompiler("compile", FALSE),
                           NewCompiler("compile_with_warnings", TRUE),
                           NewCompiler("compile_with_warnings", FALSE),
                           DirectCheck}

Next ==
    \/ ParseHeader
    \/ LoopNewline
    \/ LoopPipe
    \/ LoopStatement
    \/ ParseExport
    \/ CheckRegister
    \/ Recheck
    \/ CheckStatement
    \/ CheckReturn
    \/ RaiseTypeError
    \/ GenerateCode

Spec == Init /\ [][Next]_vars

\* tokenize(source): a new Lexer on the text, and its one call of tokenize
LexInit ==
    /\ lexer \in {NewLexer(source) : source \in LexerSources}
    /\ tokens = <<>>
    /\ InitParser
    /\ compiler = NewCompiler("compile", TRUE)

LexNext ==
    \/ LexComment
    \/ LexNewline
    \/ LexNumber
    \/ LexDot
    \/ LexString
    \/ LexIdentifier
    \/ LexOperator
    \/ LexDelimiter
    \/ LexUnexpected
    \/ LexReturn

LexSpec == LexInit /\ [][LexNext]_vars

-----------------------------------------------------------------------------
(* Properties of Parser.parse                                              *)

\* Parser.parse has returned a Program
Parsed == pc \in {"parsed", "checking", "checked", "raised", "generated"}

\* the kinds of the |filter:, |map: and |parse: clauses of the source text
\* from token p on, in source order
RECURSIVE ClauseKinds(_)
ClauseKinds(p) ==
    IF p >= Len(tokens) THEN <<>>
    ELSE IF tokens[p].type = "PIPE" /\ tokens[p + 1].type \in {"FILTER", "MAP", "PARSE"}
    THEN <<CASE tokens[p + 1].type = "FILTER" -> "FilterOp"
             [] tokens[p + 1].type = "MAP" -> "MapOp"
             [] OTHER -> "ParseOp">> \o ClauseKinds(p + 1)
    ELSE ClauseKinds(p + 1)

OperationKinds(node) == [k \in 1..Len(node.operations) |-> node.operations[k].kind]

\* C1: a source text data:<source> followed by |filter:, |map: and |parse:
\* clauses parses to exactly one DataPipeline node: its source is the
\* expression after data: (not a pipeline wrapped around it) and its
\* operations are the clauses, in source order.
C1_OnePipelineHoldsTheClauses ==
    (Parsed /\ tokens[1].type = "DATA") =>
        /\ Len(statements) = 1
        /\ statements[1].kind = "DataPipeline"
        /\ statements[1].source.kind # "DataPipeline"
        /\ OperationKinds(statements[1]) = ClauseKinds(1)

\* the positions of the PIPE tokens that no filter, map or parse follows
SeparatorPipes ==
    {p \in 1..(Len(tokens) - 1) :
        tokens[p].type = "PIPE" /\ tokens[p + 1].type \notin {"FILTER", "MAP", "PARSE"}}

\* the source text is name=atom|name=atom|...|name=atom
IsAssignmentChain ==
    /\ Len(tokens) % 4 = 0
    /\ \A k \in 1..Len(tokens) :
          tokens[k].type \in
             CASE k % 4 = 1 -> {"IDENTIFIER"}
               [] k % 4 = 2 -> {"EQUALS"}
               [] k % 4 = 3 -> {"NUMBER", "IDENTIFIER"}
               [] OTHER -> IF k = Len(tokens) THEN {"EOF"} ELSE {"PIPE"}

\* the node of the atom token t
AtomNode(t) ==
    IF t.type = "NUMBER"
    THEN [kind |-> "NumberLiteral", column |-> t.column, value |-> NumberValue(t.value)]
    ELSE [kind |-> "Identifier", column |-> t.column, name |-> t.value]

\* the k-th assignment of an assignment chain as a VariableDef
ChainAssignment(k) ==
    [kind |-> "VariableDef", column |-> tokens[4 * k - 3].column,
     name |-> tokens[4 * k - 3].value, type_annotation |-> Nil,
     value |-> AtomNode(tokens[4 * k - 1])]

\* C2: postfix parsing never consumes a PIPE that is not followed by filter,
\* map or parse: started on such a PIPE, inside a pipeline or not, it returns
\* its operand with the cursor still on the PIPE; so n simple assignments
\* joined by PIPEs parse to n VariableDefs, in source order.
C2_SeparatorPipeIsNotConsumed ==
    /\ \A p \in SeparatorPipes, flag \in BOOLEAN :
          parse_postfix_loop([pos |-> p, in_pipeline |-> flag], AtomNode(tokens[1]))
             = Ok([pos |-> p, in_pipeline |-> flag], AtomNode(tokens[1]))
    /\ IsAssignmentChain =>
          /\ pc \notin {"error", "hang"}
          /\ Parsed => statements = [k \in 1..(Len(tokens) \div 4) |-> ChainAssignment(k)]

\* three assignments joined by two PIPEs have been parsed
C2_Witness ==
    /\ Parsed /\ IsAssignmentChain
    /\ Cardinality(SeparatorPipes) = 2
    /\ Len(statements) = 3

\* the cursor after the condition of the if: that opens the source text
AfterCondition == parse_expression([pos |-> 3, in_pipeline |-> FALSE]).s

TernaryExample == Src(<<"if", ":", "x", ">", "0", "?", "1", ":", "-", "1">>)

IfElseExample ==
    Layout(<<Line(0, Lx(<<"if", ":", "x", ">", "0">>)),
             Line(2, Lx(<<"y", "=", "1">>)),
             Line(0, Lx(<<"else", ":">>)),
             Line(2, Lx(<<"y", "=", "0">>))>>)

\* C3: parse_if_stmt selects the form by the token after the condition alone:
\* on `?` it returns an IfStmt (true branch, `:`, false branch), on anything
\* else an IfElseBlock; if:x>0?1:-1 is an IfStmt with branches 1 and -1, and
\* the block with an else: is an IfElseBlock with both bodies non-empty.
C3_IfFormByNextToken ==
    /\ (Parsed /\ tokens[1].type = "IF") =>
          /\ Len(statements) >= 1
          /\ statements[1].kind =
                IF current_token(AfterCondition).type = "QUESTION"
                THEN "IfStmt" ELSE "IfElseBlock"
    /\ (Parsed /\ tokens = TernaryExample) =>
          /\ statements[1].true_expr =
                [kind |-> "NumberLiteral", column |-> 8, value |-> NumberValue("1")]
          /\ statements[1].false_expr.kind = "Operation"
          /\ statements[1].false_expr.operator = "-"
          /\ statements[1].false_expr.operands =
                <<[kind |-> "NumberLiteral", column |-> 11, value |-> NumberValue("1")]>>
    /\ (Parsed /\ tokens = IfElseExample) =>
          /\ [k \in 1..Len(statements[1].if_body) |-> statements[1].if_body[k].name]
                = <<"y">>
          /\ Len(statements[1].else_body) = 1
          /\ statements[1].else_body[1].value.value = NumberValue("0")

\* a ternary if: with a ret: branch has been parsed
C3_Witness ==
    /\ Parsed /\ tokens[1].type = "IF"
    /\ current_token(AfterCondition).type = "QUESTION"
    /\ statements[1].kind = "IfStmt"
    /\ statements[1].true_expr.kind = "ReturnStmt"

\* C4: Parser.parse terminates on every token stream that ends in EOF: no
\* body loop repeats an iteration that leaves the cursor where it was.
C4_ParseTerminates == pc # "hang"

\* C5: when parse returns a Program the cursor is on the EOF token: every
\* token of the source text has been consumed.
C5_ProgramConsumesEveryToken == Parsed => current_token(pstate).type = "EOF"

\* some statement of the body, or of a loop or if: nested in it, starts at
\* column 1
RECURSIVE ColumnOneInside(_)
ColumnOneInside(body) ==
    \E k \in 1..Len(body) :
        \/ body[k].column = 1
        \/ /\ body[k].kind = "IfElseBlock"
           /\ \/ ColumnOneInside(body[k].if_body)
              \/ ColumnOneInside(body[k].else_body)
        \/ /\ body[k].kind \in {"ForLoop", "WhileLoop"}
           /\ ColumnOneInside(body[k].body)

\* C6: a statement that starts at column 1 on a line after the header of a
\* function is never in the body of the FunctionDef, nor in a loop or an if:
\* nested in that body.
C6_ColumnOneClosesTheBody ==
    Parsed =>
        \A k \in 1..Len(statements) :
            statements[k].kind = "FunctionDef" => ~ColumnOneInside(statements[k].body)

-----------------------------------------------------------------------------
(* Expression precedence                                                   *)

\* the binding strength of a binary operator, by its lexeme: logical, then
\* comparison, then term, then factor; 0 for every other lexeme
Precedence(lexeme) ==
    CASE lexeme \in {"&&", "||"} -> 1
      [] lexeme \in {"==", "!=", "<", ">", "<=", ">="} -> 2
      [] lexeme \in {"+", "-"} -> 3
      [] lexeme \in {"*", "/", "%"} -> 4
      [] OTHER -> 0

IsOperand(t) == t.type \in {"IDENTIFIER", "NUMBER"}

\* the binary operators of tokens lo..hi: an operator that follows an operand
BinaryPositions(lo, hi) ==
    {p \in (lo + 1)..hi : Precedence(tokens[p].value) > 0 /\ IsOperand(tokens[p - 1])}

\* the root of the left-associative tree of tokens lo..hi: the rightmost of
\* its loosest binary operators
RootPosition(lo, hi) ==
    CHOOSE p \in BinaryPositions(lo, hi) :
        \A q \in BinaryPositions(lo, hi) :
            \/ Precedence(tokens[p].value) < Precedence(tokens[q].value)
            \/ Precedence(tokens[p].value) = Precedence(tokens[q].value) /\ q <= p

\* the tree precedence climbing builds from tokens lo..hi
RECURSIVE ReferenceTree(_, _)
ReferenceTree(lo, hi) ==
    IF BinaryPositions(lo, hi) # {}
    THEN [kind |-> "Operation", column |-> tokens[RootPosition(lo, hi)].column,
          operator |-> tokens[RootPosition(lo, hi)].value,
          operands |-> <<ReferenceTree(lo, RootPosition(lo, hi) - 1),
                         ReferenceTree(RootPosition(lo, hi) + 1, hi)>>]
    ELSE IF lo < hi
    THEN [kind |-> "Operation", column |-> tokens[lo].column,
          operator |-> tokens[lo].value,
          operands |-> <<ReferenceTree(lo + 1, hi)>>]
    ELSE AtomNode(tokens[lo])

\* the source text is name=E on one line, E made of identifiers, numbers,
\* the binary operators and the prefix operators - and ! only, with an
\* operand on both sides of every binary operator
IsFlatAssignment ==
    /\ Len(tokens) >= 4
    /\ tokens[1].type = "IDENTIFIER"
    /\ tokens[2].type = "EQUALS"
    /\ tokens[Len(tokens)].type = "EOF"
    /\ IsOperand(tokens[Len(tokens) - 1])
    /\ \A k \in 3..(Len(tokens) - 2) :
          IF IsOperand(tokens[k])
          THEN Precedence(tokens[k + 1].value) > 0
          ELSE /\ Precedence(tokens[k].value) > 0 \/ tokens[k].value \in {"-", "!"}
               /\ IsOperand(tokens[k + 1]) \/ tokens[k + 1].value \in {"-", "!"}

\* C7: a flat expression parses to the tree of precedence climbing with the
\* levels logical < comparison < term < factor < unary < primary, every
\* binary level left-associative, each Operation holding its operator's
\* lexeme.
C7_PrecedenceClimbing ==
    IsFlatAssignment =>
        /\ pc \notin {"error", "hang"}
        /\ Parsed =>
              statements =
                 << [kind |-> "VariableDef", column |-> tokens[1].column,
                    name |-> tokens[1].value, type_annotation |-> Nil,
                    value |-> ReferenceTree(3, Len(tokens) - 1)] >>

\* a-b-c has been parsed: the left operand of the root is the first
\* subtraction
C7_Witness ==
    /\ Parsed /\ IsFlatAssignment
    /\ statements[1].value.kind = "Operation"
    /\ statements[1].value.operator = "-"
    /\ Len(statements[1].value.operands) = 2
    /\ statements[1].value.operands[1].kind = "Operation"
    /\ statements[1].value.operands[1].operator = "-"
    /\ Len(statements[1].value.operands[1].operands) = 2

-----------------------------------------------------------------------------
(* Properties of TypeChecker.check                                         *)

\* the errors of one kind reported at one column
ErrorsAt(what, column) ==
    {i \in 1..Len(errors) : errors[i].what = what /\ errors[i].column = column}

\* the checker before the first statement
NewChecker ==
    [errors |-> <<>>, symbols |-> <<>>, current_function |-> <<>>,
     current_return_type |-> <<>>]

\* the symbols in scope when top-level statement k is checked
ScopeAt(k) == check_statements(NewChecker, SubSeq(statements, 1, k - 1), 1).symbols

\* the symbols in scope when statement j of the body of function k is
\* checked: the parameters i0, i1, ... and what the body has defined so far
BodyScopeAt(k, j) ==
    check_statements(
        [NewChecker EXCEPT !.symbols =
            bind_parameters(ScopeAt(k), statements[k].input_types,
                            Len(statements[k].input_types))],
        SubSeq(statements[k].body, 1, j - 1), 1).symbols

\* exactly one error of the kind is reported at the column, and it names the
\* subject and the two types
OneErrorNames(what, column, subject, expected, actual) ==
    /\ Cardinality(ErrorsAt(what, column)) = 1
    /\ \A i \in ErrorsAt(what, column) :
          /\ errors[i].subject = subject
          /\ errors[i].expected = expected
          /\ errors[i].actual = actual

\* the ret: statement of function func is checked against the output type
ReturnIsChecked(func, ret, syms) ==
    IF _types_compatible(_resolve_type(func.output_type), _infer_type(syms, ret.value))
    THEN ErrorsAt("return", ret.column) = {}
    ELSE OneErrorNames("return", ret.column, func.name,
                       _resolve_type(func.output_type).name,
                       _infer_type(syms, ret.value).name)

ReturnMismatchExample ==
    Src(<<"fn", ":", "add", "|", "i", ":", "int", ",", "int", "|", "o", ":", "str",
          "|", "ret", ":", "i0", "+", "i1">>)

\* C8: in a function with a declared output type, a ret: in the body whose
\* inferred type is not compatible with it is reported by exactly one
\* TypeError naming the function and the two types, a compatible one by
\* none; a ret: outside any function is not checked.
C8_ReturnTypeChecked ==
    pc = "checked" =>
        /\ \A k \in 1..Len(statements) :
              /\ statements[k].kind = "FunctionDef" =>
                    \A j \in 1..Len(statements[k].body) :
                        statements[k].body[j].kind = "ReturnStmt" =>
                            ReturnIsChecked(statements[k], statements[k].body[j],
                                            BodyScopeAt(k, j))
              /\ statements[k].kind = "ReturnStmt" =>
                    ErrorsAt("return", statements[k].column) = {}
        /\ tokens = ReturnMismatchExample =>
              /\ Len(errors) = 1
              /\ OneErrorNames("return", 24, "add", "str", "int")

\* a function with two ret: statements has been checked: one is reported
C8_Witness ==
    /\ pc = "checked"
    /\ Len(statements) = 1 /\ statements[1].kind = "FunctionDef"
    /\ Len(statements[1].body) = 2
    /\ \A j \in 1..2 : statements[1].body[j].kind = "ReturnStmt"
    /\ Len(errors) = 1 /\ errors[1].what = "return"

\* C9: the type inferred for a division is float whatever the operand types:
\* under an int annotation a division is reported as a mismatch, under a
\* float annotation it is accepted.
C9_DivisionInfersFloat ==
    pc = "checked" =>
        \A k \in 1..Len(statements) :
            (/\ statements[k].kind = "VariableDef"
             /\ statements[k].value.kind = "Operation"
             /\ statements[k].value.operator = "/") =>
                /\ _infer_type(ScopeAt(k), statements[k].value).name = "float"
                /\ statements[k].type_annotation.kind # "None" =>
                      Cardinality(ErrorsAt("variable", statements[k].column)) =
                         IF statements[k].type_annotation.name = "int" THEN 1 ELSE 0

\* the annotated definition var is checked against its annotation
VariableIsChecked(var, syms) ==
    IF var.type_annotation.kind = "None"
    THEN ErrorsAt("variable", var.column) = {}
    ELSE IF _types_compatible(_resolve_type(var.type_annotation),
                              _infer_type(syms, var.value))
    THEN ErrorsAt("variable", var.column) = {}
    ELSE OneErrorNames("variable", var.column, var.name,
                       _resolve_type(var.type_annotation).name,
                       _infer_type(syms, var.value).name)

AnnotationMismatchExample == Src(<<"v", ":", "x", ":", "int", "=", "'hello'">>)

\* C10: a VariableDef with a type annotation, at top level or in a function
\* body, whose inferred value type is not compatible with the annotation is
\* reported by exactly one TypeError naming the variable and the two types;
\* a compatible one, and one without annotation, by none.
C10_AnnotationChecked ==
    pc = "checked" =>
        /\ \A k \in 1..Len(statements) :
              /\ statements[k].kind = "VariableDef" =>
                    VariableIsChecked(statements[k], ScopeAt(k))
              /\ statements[k].kind = "FunctionDef" =>
                    \A j \in 1..Len(statements[k].body) :
                        statements[k].body[j].kind = "VariableDef" =>
                            VariableIsChecked(statements[k].body[j], BodyScopeAt(k, j))
        /\ tokens = AnnotationMismatchExample =>
              /\ Len(errors) = 1
              /\ OneErrorNames("variable", 1, "x", "int", "str")

\* an annotated definition in a function body has been reported
C10_Witness ==
    /\ pc = "checked"
    /\ Len(statements) = 1 /\ statements[1].kind = "FunctionDef"
    /\ Len(statements[1].body) = 1
    /\ statements[1].body[1].kind = "VariableDef"
    /\ statements[1].body[1].type_annotation.kind # "None"
    /\ Len(errors) = 1 /\ errors[1].what = "variable"

-----------------------------------------------------------------------------
(* Type compatibility                                                      *)

\* the rule of compatible(target, source) on type names
CompatibleNames(target, source) ==
    \/ target = "any"
    \/ source = "any"
    \/ target = source
    \/ target = "float" /\ source = "int"

\* the source text is v:a:S=q|v:x:T=a
IsTypePair ==
    /\ Len(tokens) = 16
    /\ [k \in 1..16 |-> tokens[k].value]
          = <<"v", ":", "a", ":", tokens[5].value, "=", "q", "|",
              "v", ":", "x", ":", tokens[13].value, "=", "a", "">>

\* C11: for every pair (target, source) of the twelve built-in type names,
\* compatible(target, source) holds exactly when target is any, or source is
\* any, or the names are equal, or target is float and source is int; so a
\* value of declared type S under an annotation T is reported exactly when
\* the rule fails, an int literal under float is accepted and a float literal
\* under int is reported.
C11_CompatibilityRule ==
    /\ \A target \in TYPE_NAMES, source \in TYPE_NAMES :
          _types_compatible(BUILTIN_TYPES(target), BUILTIN_TYPES(source))
             <=> CompatibleNames(target, source)
    /\ (pc = "checked" /\ IsTypePair) =>
          errors = IF CompatibleNames(tokens[13].value, tokens[5].value)
                   THEN <<>>
                   ELSE <<TypeError("variable", "x", tokens[13].value,
                                    tokens[5].value, tokens[9].column)>>
    /\ (pc = "checked" /\ tokens = Src(<<"v", ":", "x", ":", "float", "=", "42">>)) =>
          errors = <<>>
    /\ (pc = "checked" /\ tokens = Src(<<"v", ":", "x", ":", "int", "=", "2.5">>)) =>
          Len(errors) = 1

\* an int value under a float annotation has been accepted
C11_Witness ==
    /\ pc = "checked" /\ IsTypePair
    /\ tokens[13].value = "float" /\ tokens[5].value = "int"
    /\ errors = <<>>

-----------------------------------------------------------------------------
(* C12: check is idempotent and independent of what was checked before     *)

\* a call of check has reset the checker and collected the signatures, and
\* has not yet checked a statement
CheckStarted == pc = "checking" /\ stmt_index = 1

\* the state a call of check starts from, whatever the instance did before
StartsAfresh ==
    /\ errors = <<>>
    /\ symbols = <<>>
    /\ functions = register_functions(<<>>, statements, 1)
    /\ current_function = <<>>
    /\ current_return_type = <<>>

\* every call so far has returned the list a new TypeChecker returns
SameAsFresh ==
    \A i \in 1..Len(returned) :
        returned[i] = check_statements(NewChecker, statements, 1).errors

\* C12: every call of check on the unmodified Program, the first one and a
\* later one on the same TypeChecker alike, starts from empty errors and
\* symbols, a function table rebuilt from the Program, and no current
\* function or return type; and every call returns the same error list, in
\* the same order, that a new TypeChecker returns.
C12_CheckIsIdempotent ==
    /\ CheckStarted => StartsAfresh
    /\ pc = "checked" => SameAsFresh

\* a Program with a function has been checked twice by one TypeChecker, and
\* errors were reported
C12_Witness ==
    /\ pc = "checked"
    /\ Len(returned) = MaxChecks
    /\ returned[1] # <<>>
    /\ \E k \in 1..Len(statements) : statements[k].kind = "FunctionDef"

-----------------------------------------------------------------------------
(* C13: the parameters i0..i(N-1) in the body of a function                *)

ParamIndex(nm) == CHOOSE n \in 0..(MaxParams - 1) : nm = ParamName(n)

\* the annotated definitions `v:x:T=iK` in the body of function k
ParameterUses(k) ==
    {j \in 1..Len(statements[k].body) :
        /\ statements[k].body[j].kind = "VariableDef"
        /\ statements[k].body[j].type_annotation.kind # "None"
        /\ statements[k].body[j].value.kind = "Identifier"
        /\ statements[k].body[j].value.name \in PARAM_NAMES}

\* an earlier statement of the body defines the name
DefinedInBodyBefore(k, j, nm) ==
    \E j2 \in 1..(j - 1) :
        /\ statements[k].body[j2].kind = "VariableDef"
        /\ statements[k].body[j2].name = nm

\* the type the name has in the body of function k: the declared input type
\* for a parameter of the function; otherwise the type of the outer
\* variable, or any
ParameterTypeName(k, nm) ==
    IF ParamIndex(nm) < Len(statements[k].input_types)
    THEN statements[k].input_types[ParamIndex(nm) + 1].name
    ELSE IF nm \in DOMAIN ScopeAt(k) THEN ScopeAt(k)[nm].name
    ELSE "any"

\* the definition is reported, or not, as the assignment of a value of the
\* named type
UseIsCheckedAs(var, name) ==
    IF CompatibleNames(var.type_annotation.name, name)
    THEN ErrorsAt("variable", var.column) = {}
    ELSE OneErrorNames("variable", var.column, var.name,
                       var.type_annotation.name, name)

\* C13 as stated: at every statement of the body of a function with N input
\* types, i_k with k < N has the k-th declared input type, whatever outer
\* variable has that name, and i_k with k >= N has the type of the outer
\* variable of that name, or any.
C13_ParametersThroughoutTheBody ==
    pc = "checked" =>
        \A k \in 1..Len(statements) :
            statements[k].kind = "FunctionDef" =>
                \A j \in ParameterUses(k) :
                    UseIsCheckedAs(statements[k].body[j],
                        ParameterTypeName(k, statements[k].body[j].value.name))

\* C13, amended: the same, at every statement of the body before which the
\* body itself has not defined i_k; a definition of i_k in the body replaces
\* the parameter's type for the statements after it.
C13_ParametersUntilRedefined ==
    pc = "checked" =>
        \A k \in 1..Len(statements) :
            statements[k].kind = "FunctionDef" =>
                \A j \in ParameterUses(k) :
                    ~DefinedInBodyBefore(k, j, statements[k].body[j].value.name) =>
                        UseIsCheckedAs(statements[k].body[j],
                            ParameterTypeName(k, statements[k].body[j].value.name))

\* a function of two inputs has used i0, which is also an outer variable of
\* another type, and the use was reported against the declared input type
C13_Witness ==
    /\ pc = "checked"
    /\ \E k \in 1..Len(statements) :
          /\ statements[k].kind = "FunctionDef"
          /\ Len(statements[k].input_types) = MaxParams
          /\ "i0" \in DOMAIN ScopeAt(k)
          /\ \E j \in ParameterUses(k) :
                /\ statements[k].body[j].value.name = "i0"
                /\ ~DefinedInBodyBefore(k, j, "i0")
                /\ ScopeAt(k)["i0"].name # statements[k].input_types[1].name
                /\ ErrorsAt("variable", statements[k].body[j].column) # {}

-----------------------------------------------------------------------------
(* Properties of Lexer.tokenize                                            *)

\* the first character of the text that opens a string literal: the texts
\* with a quote have no comment before it; 0 if there is none
OpeningQuote(source) ==
    IF \E p \in 1..Len(source) : source[p] \in {"'", "\""}
    THEN CHOOSE p \in 1..Len(source) :
            /\ source[p] \in {"'", "\""}
            /\ \A p2 \in 1..(p - 1) : source[p2] \notin {"'", "\""}
    ELSE 0

\* the position from i on of the quote that closes the string opened by
\* quote: a quote in ${...} and an escaped character are not it; 0 if the
\* text ends before
RECURSIVE ClosingQuote(_, _, _, _)
ClosingQuote(source, i, quote, depth) ==
    IF i > Len(source) THEN 0
    ELSE IF source[i] = "$" /\ i < Len(source) /\ source[i + 1] = "{"
    THEN ClosingQuote(source, i + 2, quote, depth + 1)
    ELSE IF depth > 0
    THEN ClosingQuote(source, i + 1, quote,
                      CASE source[i] = "{" -> depth + 1
                        [] source[i] = "}" -> depth - 1
                        [] OTHER -> depth)
    ELSE IF source[i] = quote THEN i
    ELSE IF source[i] = "\\" THEN ClosingQuote(source, i + 2, quote, depth)
    ELSE ClosingQuote(source, i + 1, quote, depth)

\* the first string literal of the text is not closed
Unterminated(source) ==
    /\ OpeningQuote(source) > 0
    /\ ClosingQuote(source, OpeningQuote(source) + 1,
                    source[OpeningQuote(source)], 0) = 0

LineOf(source, p) == 1 + Cardinality({q \in 1..(p - 1) : source[q] = "\n"})

ColumnOf(source, p) ==
    Cardinality({q \in 1..p : \A q2 \in q..(p - 1) : source[q2] # "\n"})

\* C14: when the first string literal of the text has no closing quote
\* before the end of input, however the input ends inside the string,
\* tokenize returns no token list: it raises LexerError, and no other
\* exception, at the line and column of the opening quote.
C14_UnterminatedStringRaisesLexerError ==
    (lexer.status # "running" /\ Unterminated(lexer.source)) =>
        /\ lexer.status = "LexerError"
        /\ lexer.error.line = LineOf(lexer.source, OpeningQuote(lexer.source))
        /\ lexer.error.column = ColumnOf(lexer.source, OpeningQuote(lexer.source))

-----------------------------------------------------------------------------
(* C15: numbers and the range operator                                     *)

RECURSIVE JoinChars(_)
JoinChars(chars) ==
    IF chars = <<>> THEN "" ELSE Head(chars) \o JoinChars(Tail(chars))

\* the lexemes of the tokens before EOF, one after another
RECURSIVE JoinLexemes(_)
JoinLexemes(toks) ==
    IF toks = <<>> \/ Head(toks).type = "EOF" THEN ""
    ELSE Head(toks).value \o JoinLexemes(Tail(toks))

IsDotted(source) == \A p \in 1..Len(source) : source[p] \in DIGITS \cup {"."}

\* the text is <digits>..<digits>, the first n characters being the digits
\* before the dots
IsRange(source, n) ==
    /\ n >= 1
    /\ n + 3 <= Len(source)
    /\ source[n + 1] = "." /\ source[n + 2] = "."
    /\ \A p \in 1..Len(source) : p \notin {n + 1, n + 2} => source[p] \in DIGITS

\* the characters of the text a token on line 1 was read from
Span(token) == token.column..(token.column + Len(token.value) - 1)

\* C15: of a text of digits and dots, a NUMBER token holds at most one dot
\* and no dot that another dot follows; <digits>..<digits> gives NUMBER,
\* DOTDOT, NUMBER with the two digit strings (0..10 gives NUMBER 0, DOTDOT,
\* NUMBER 10); and the lexemes of the tokens, one after another, are the
\* text.
C15_NumberStopsBeforeRange ==
    (lexer.status # "running" /\ IsDotted(lexer.source)) =>
        /\ lexer.status = "returned"
        /\ JoinLexemes(lexer.tokens) = JoinChars(lexer.source)
        /\ \A k \in 1..Len(lexer.tokens) :
              lexer.tokens[k].type = "NUMBER" =>
                  /\ Cardinality({p \in Span(lexer.tokens[k]) :
                                     lexer.source[p] = "."}) <= 1
                  /\ \A p \in Span(lexer.tokens[k]) :
                        (lexer.source[p] = "." /\ p < Len(lexer.source)) =>
                            lexer.source[p + 1] # "."
        /\ \A n \in 1..Len(lexer.source) :
              IsRange(lexer.source, n) =>
                  /\ [k \in 1..Len(lexer.tokens) |-> lexer.tokens[k].type]
                        = <<"NUMBER", "DOTDOT", "NUMBER", "EOF">>
                  /\ lexer.tokens[1].value = JoinChars(SubSeq(lexer.source, 1, n))
                  /\ lexer.tokens[3].value
                        = JoinChars(SubSeq(lexer.source, n + 3, Len(lexer.source)))
        /\ lexer.source = <<"0", ".", ".", "1", "0">> =>
              /\ lexer.tokens[1].value = "0"
              /\ lexer.tokens[3].value = "10"

\* 0..10 has been tokenized
C15_Witness ==
    /\ lexer.status = "returned"
    /\ lexer.source = <<"0", ".", ".", "1", "0">>
    /\ Len(lexer.tokens) = 4

-----------------------------------------------------------------------------
(* C16: the EOF token                                                      *)

\* C16: a token list that tokenize returns, for the empty text and for a
\* text that ends in a comment or in blanks as for any other, holds exactly
\* one EOF token, and it is the last element.
C16_OneEOFLast ==
    lexer.status = "returned" =>
        /\ lexer.tokens # <<>>
        /\ lexer.tokens[Len(lexer.tokens)].type = "EOF"
        /\ Cardinality({k \in 1..Len(lexer.tokens) :
                           lexer.tokens[k].type = "EOF"}) = 1
        /\ lexer.source = <<>> => Len(lexer.tokens) = 1

\* a text that ends in a comment after a blank has been tokenized
C16_Witness ==
    /\ lexer.status = "returned"
    /\ lexer.source = <<"x", " ", "#">>
    /\ Len(lexer.tokens) = 2

-----------------------------------------------------------------------------
(* C17: the operations of a DataPipeline                                   *)

\* the DataPipeline nodes of a statement: the statement, the value of a
\* definition, and the source of a pipeline
RECURSIVE PipelinesOf(_)
PipelinesOf(node) ==
    CASE node.kind = "DataPipeline" -> {node} \cup PipelinesOf(node.source)
      [] node.kind = "VariableDef" -> PipelinesOf(node.value)
      [] OTHER -> {}

\* C17: every DataPipeline node of a Program that parse returns, from a
\* data: statement or from |filter:, |map:, |parse: after an expression, has
\* at least one operation.
C17_PipelineHasOperations ==
    Parsed =>
        \A k \in 1..Len(statements) :
            \A p \in PipelinesOf(statements[k]) : p.operations # <<>>

-----------------------------------------------------------------------------
(* C18: the branches of an IfStmt                                          *)

\* the nodes that carry a list of statements
BLOCK_KINDS == {"IfElseBlock", "ForLoop", "WhileLoop", "FunctionDef"}

\* the IfStmt nodes of a statement: the statement, the value of a definition
\* or of a ret:, and the branches of an IfStmt
RECURSIVE IfStmtsOf(_)
IfStmtsOf(node) ==
    CASE node.kind = "IfStmt" ->
            {node} \cup IfStmtsOf(node.true_expr) \cup IfStmtsOf(node.false_expr)
      [] node.kind \in {"VariableDef", "ReturnStmt"} -> IfStmtsOf(node.value)
      [] OTHER -> {}

\* an expression, or a ReturnStmt of an expression
IsBranch(node) ==
    /\ node.kind \notin BLOCK_KINDS \cup {"VariableDef", "CompoundAssignment", "None"}
    /\ node.kind = "ReturnStmt" =>
          node.value.kind \notin BLOCK_KINDS
                                 \cup {"VariableDef", "CompoundAssignment",
                                       "ReturnStmt", "None"}

\* C18: in every IfStmt of a Program that parse returns, true_expr and
\* false_expr are each an expression or a ReturnStmt of an expression, never
\* a node with a statement list such as the IfElseBlock of an if: without ?.
C18_BranchesAreExpressions ==
    Parsed =>
        \A k \in 1..Len(statements) :
            \A n \in IfStmtsOf(statements[k]) :
                IsBranch(n.true_expr) /\ IsBranch(n.false_expr)

-----------------------------------------------------------------------------
(* C19: compile raises the first type error, compile_with_warnings returns  *)
(* them all                                                                *)

\* what the type checker returned to the Compiler; nothing when type
\* checking is disabled
Reported == IF compiler.type_check_enabled THEN returned[1] ELSE <<>>

\* C19: compile raises exactly when type checking is enabled and the checker
\* returned at least one error; it raises the first of them and generates no
\* code.  compile_with_warnings never raises a type error: it generates code
\* and returns every error the checker returned, in order, and none when
\* type checking is disabled.
C19_StrictRaisesCollectReturns ==
    /\ pc = "raised" =>
          /\ compiler.entry = "compile"
          /\ compiler.type_check_enabled
          /\ returned[1] # <<>>
          /\ compiler.raised = returned[1][1]
          /\ compiler.output = Nil
    /\ (pc = "generated" /\ compiler.entry = "compile") =>
          /\ Reported = <<>>
          /\ compiler.output # Nil
    /\ (pc = "generated" /\ compiler.entry = "compile_with_warnings") =>
          /\ compiler.warnings = Reported
          /\ compiler.output # Nil
          /\ compiler.raised = Nil
    /\ (pc = "checked" /\ compiler.entry = "compile_with_warnings") =>
          ENABLED GenerateCode
    /\ (pc = "checked" /\ compiler.entry = "compile") =>
          IF returned[1] # <<>> THEN ENABLED RaiseTypeError /\ ~ENABLED GenerateCode
          ELSE ENABLED GenerateCode /\ ~ENABLED RaiseTypeError
    /\ (pc = "parsed" /\ ~compiler.type_check_enabled) =>
          ENABLED GenerateCode /\ ~ENABLED CheckRegister

\* compile_with_warnings has generated code and returned two type errors
C19_Witness ==
    /\ pc = "generated"
    /\ compiler.entry = "compile_with_warnings"
    /\ Len(compiler.warnings) = 2
    /\ compiler.output # Nil

-----------------------------------------------------------------------------
(* C20: reserved words as the keys of an object literal                    *)

\* the source text is x={k:1}
IsObjectKeyProgram ==
    /\ Len(tokens) = 8
    /\ [k \in 1..3 |-> tokens[k].value] = <<"x", "=", "{">>
    /\ [k \in 5..7 |-> tokens[k].value] = [k \in 5..7 |-> <<":", "1", "}">>[k - 4]]

\* C20: in x={k:1}, where k is an identifier or the lexeme of any keyword
\* or type keyword (data, map, filter, state, file, sort, int, str, ...),
\* no ParseError is raised and the object literal records the pair with the
\* lexeme k as its key.
C20_ReservedWordsAreKeys ==
    IsObjectKeyProgram =>
        /\ pc # "error"
        /\ Parsed =>
              /\ Len(statements) = 1
              /\ statements[1].kind = "VariableDef"
              /\ statements[1].value.kind = "ObjectLiteral"
              /\ Len(statements[1].value.pairs) = 1
              /\ statements[1].value.pairs[1].key = tokens[4].value

-----------------------------------------------------------------------------
(* C21: the twelve type names                                              *)

\* the type-keyword token of a type name
TypeKeywordOf(name) ==
    CASE name = "int" -> "TYPE_INT"     [] name = "float" -> "TYPE_FLOAT"
      [] name = "str" -> "TYPE_STR"     [] name = "bool" -> "TYPE_BOOL"
      [] name = "arr" -> "TYPE_ARR"     [] name = "obj" -> "TYPE_OBJ"
      [] name = "map" -> "TYPE_MAP"     [] name = "set" -> "TYPE_SET"
      [] name = "any" -> "TYPE_ANY"     [] name = "void" -> "TYPE_VOID"
      [] name = "promise" -> "TYPE_PROMISE" [] name = "func" -> "TYPE_FUNC"

\* the source text is v:x:T=1 with T a type name
IsTypeDeclaration ==
    /\ Len(tokens) = 8
    /\ [k \in 1..4 |-> tokens[k].value] = <<"v", ":", "x", ":">>
    /\ tokens[5].value \in TYPES
    /\ tokens[6].value = "=" /\ tokens[7].value = "1"

\* the source text is fn:f|i:T|o:T|ret:1 with T a type name
IsTypeSignature ==
    /\ Len(tokens) = 16
    /\ [k \in 1..6 |-> tokens[k].value] = <<"fn", ":", "f", "|", "i", ":">>
    /\ tokens[7].value \in TYPES
    /\ tokens[11].value = tokens[7].value
    /\ tokens[13].value = "ret"

\* C21: for each of the twelve type names T, the token of T is its
\* type-keyword token, v:x:T=1 parses to a VariableDef annotated with a
\* Type named T, and fn:f|i:T|o:T|... to a FunctionDef whose input and
\* output types are Types named T.
C21_TypeNamesAreTypes ==
    /\ IsTypeDeclaration =>
          /\ tokens[5].type = TypeKeywordOf(tokens[5].value)
          /\ pc # "error"
          /\ Parsed =>
                /\ statements[1].kind = "VariableDef"
                /\ statements[1].type_annotation.kind = "Type"
                /\ statements[1].type_annotation.name = tokens[5].value
    /\ IsTypeSignature =>
          /\ tokens[7].type = TypeKeywordOf(tokens[7].value)
          /\ pc # "error"
          /\ Parsed =>
                /\ statements[1].kind = "FunctionDef"
                /\ Len(statements[1].input_types) = 1
                /\ statements[1].input_types[1].name = tokens[7].value
                /\ statements[1].output_type.name = tokens[7].value

-----------------------------------------------------------------------------
(* C22: the operands of an Operation                                       *)

\* the Operation nodes of a statement: in the value of a definition or of a
\* ret:, in the body of a function, and in the operands of an Operation
RECURSIVE OperationsOf(_)
OperationsOf(node) ==
    CASE node.kind = "Operation" ->
            {node} \cup UNION {OperationsOf(node.operands[k]) :
                                 k \in 1..Len(node.operands)}
      [] node.kind \in {"VariableDef", "ReturnStmt"} -> OperationsOf(node.value)
      [] node.kind = "FunctionDef" ->
            UNION {OperationsOf(node.body[k]) : k \in 1..Len(node.body)}
      [] OTHER -> {}

\* C22: every Operation of a Program that parse returns, from an infix or
\* unary operator or from op:<operator>(...), has one or two operands, and
\* one only when the operator is - or !.
C22_OperationArity ==
    Parsed =>
        \A k \in 1..Len(statements) :
            \A o \in OperationsOf(statements[k]) :
                /\ Len(o.operands) \in {1, 2}
                /\ Len(o.operands) = 1 => o.operator \in {"-", "!"}

-----------------------------------------------------------------------------
(* C23: the second pass reaches nested statements                          *)

\* the statements directly inside a statement: the branches of a ternary
\* if, the bodies of an if block and of a loop
InnerStatements(node) ==
    CASE node.kind = "IfStmt" -> {node.true_expr, node.false_expr}
      [] node.kind = "IfElseBlock" ->
            {node.if_body[j] : j \in 1..Len(node.if_body)}
            \cup {node.else_body[j] : j \in 1..Len(node.else_body)}
      [] node.kind \in {"ForLoop", "WhileLoop"} ->
            {node.body[j] : j \in 1..Len(node.body)}
      [] OTHER -> {}

\* a definition annotated int whose value is a string literal
IsMistypedDefinition(node) ==
    /\ node.kind = "VariableDef"
    /\ node.type_annotation.kind = "Type"
    /\ node.type_annotation.name = "int"
    /\ node.value.kind = "StringLiteral"

\* a return of a string literal
IsStringReturn(node) == node.kind = "ReturnStmt" /\ node.value.kind = "StringLiteral"

\* C23: once check has returned, every statement one level inside a
\* top-level if, for or while, and inside an if of a function body, has been
\* checked: an int definition given a string literal there is reported at
\* its column, and so is a string literal returned there from a function
\* whose output type is int.
C23_NestedStatementsAreChecked ==
    pc = "checked" =>
        \A k \in 1..Len(statements) :
            /\ \A d \in InnerStatements(statements[k]) :
                  IsMistypedDefinition(d) => ErrorsAt("variable", d.column) # {}
            /\ (statements[k].kind = "FunctionDef"
                  /\ statements[k].output_type.kind = "Type"
                  /\ statements[k].output_type.name = "int") =>
                  \A j \in 1..Len(statements[k].body) :
                      \A r \in InnerStatements(statements[k].body[j]) :
                          IsStringReturn(r) => ErrorsAt("return", r.column) # {}

-----------------------------------------------------------------------------
(* C24: the pipeline guard flag                                            *)

\* the PIPE tokens of the source text
Pipes == {p \in 1..Len(tokens) : tokens[p].type = "PIPE"}

\* the DataPipeline nodes inside an expression: the expression, the
\* operands of an Operation, the source of a pipeline
RECURSIVE ChainsIn(_)
ChainsIn(node) ==
    CASE node.kind = "DataPipeline" -> {node} \cup ChainsIn(node.source)
      [] node.kind = "Operation" ->
            UNION {ChainsIn(node.operands[k]) : k \in 1..Len(node.operands)}
      [] OTHER -> {}

\* the expression of a pipeline operation, None for a parse: operation
OperationExpression(op) ==
    CASE op.kind = "FilterOp" -> op.condition
      [] op.kind = "MapOp" -> op.expression
      [] OTHER -> Nil

\* the chains of the value of a definition
ChainsOfStatement(stmt) ==
    IF stmt.kind = "VariableDef" THEN ChainsIn(stmt.value) ELSE {}

\* C24: the pipeline guard flag is clear whenever no chain is being parsed:
\* before parse, between the statements of its loop, after it returns and
\* after it raises ParseError, also when the error is raised inside an
\* operation of a chain.  With the flag set, postfix parsing started on any
\* PIPE of the text returns its operand with the cursor still on the PIPE,
\* so the expression of a parsed filter: or map: operation holds no chain
\* of its own.
C24_FlagSetOnlyInsideAChain ==
    /\ pstate.in_pipeline = FALSE
    /\ \A p \in Pipes :
          LET inside == [pos |-> p, in_pipeline |-> TRUE] IN
          parse_postfix_loop(inside, AtomNode(tokens[1])) = Ok(inside, AtomNode(tokens[1]))
    /\ Parsed =>
          \A k \in 1..Len(statements) :
              \A c \in ChainsOfStatement(statements[k]) :
                  \A j \in 1..Len(c.operations) :
                      ChainsIn(OperationExpression(c.operations[j])) = {}

\* a ParseError was raised inside the second operation of a chain: the
\* first operation was parsed and the cursor stopped past the second PIPE
C24_Witness ==
    /\ tokens \in BrokenChainSources
    /\ pc = "error"
    /\ Cardinality({p \in Pipes : p < pstate.pos /\ tokens[p + 1].type \in PIPELINE_OPS}) = 2

-----------------------------------------------------------------------------
(* C25, C26: statements that start with a name                             *)

\* the source text starts with an IDENTIFIER or with self
StartsWithName == tokens[1].type \in {"IDENTIFIER", "SELF"}

StartOfText == [pos |-> 1, in_pipeline |-> FALSE]

\* the first statement of the loop raised ParseError
FirstStatementRaised == pc = "error" /\ statements = <<>>

\* the statement an assignment operator gives: a VariableDef for =, a
\* CompoundAssignment with the operator of op= otherwise
IsAssignmentBy(stmt, operator) ==
    IF operator = "EQUALS"
    THEN stmt.kind = "VariableDef"
    ELSE stmt.kind = "CompoundAssignment" /\ stmt.operator = op_map(operator)

\* C25: for a source text that starts with an IDENTIFIER or self, the first
\* statement is decided by the token after the name.  An assignment operator:
\* a VariableDef or CompoundAssignment on that name, and a ParseError only
\* from the value after the operator.  `[` or `.`: the left-hand expression
\* is parsed, and the statement is the assignment of the operator that
\* follows it, or else a DirectCall of exactly that expression.  `(`: a
\* DirectCall.  Any other token: ParseError, and no statement.
C25_StatementByTokenAfterName ==
    StartsWithName =>
        /\ tokens[2].type \in ASSIGN_OPS =>
              /\ statements # <<>> =>
                    /\ IsAssignmentBy(statements[1], tokens[2].type)
                    /\ statements[1].name = tokens[1].value
              /\ FirstStatementRaised => perror.column > tokens[2].column
        /\ (tokens[2].type \in {"LBRACKET", "DOT"} /\ statements # <<>>) =>
              LET lhs == parse_expression(StartOfText) IN
              IF match(lhs.s, ASSIGN_OPS)
              THEN IsAssignmentBy(statements[1], current_token(lhs.s).type)
              ELSE /\ statements[1].kind = "DirectCall"
                   /\ statements[1].function = lhs.node
        /\ (tokens[2].type = "LPAREN" /\ statements # <<>>) =>
              statements[1].kind = "DirectCall"
        /\ tokens[2].type \notin ASSIGN_OPS \cup {"LBRACKET", "DOT", "LPAREN"} =>
              /\ statements = <<>>
              /\ pc \in {"start", "loop", "error"}

\* a target built from identifiers, member accesses and index accesses, an
\* index being such a target or a number literal
RECURSIVE IsPlainTarget(_)
IsPlainTarget(expr) ==
    CASE expr.kind = "Identifier" -> TRUE
      [] expr.kind = "MemberAccess" -> IsPlainTarget(expr.object)
      [] expr.kind = "IndexAccess" ->
            /\ IsPlainTarget(expr.object)
            /\ expr.index.kind = "NumberLiteral" \/ IsPlainTarget(expr.index)
      [] OTHER -> FALSE

\* the source text of tokens n..m of a line without blanks
RECURSIVE TextOf(_, _)
TextOf(n, m) == IF m < n THEN "" ELSE TextOf(n, m - 1) \o tokens[m].value

\* C26: when the first statement is an assignment to a subscript or member
\* target built from identifiers, member accesses and index accesses, the
\* name of the VariableDef or CompoundAssignment is the source text of the
\* target, a number literal index rendered as written.
C26_NameIsTheTargetText ==
    (/\ StartsWithName
     /\ tokens[2].type \in {"LBRACKET", "DOT"}
     /\ statements # <<>>
     /\ statements[1].kind \in {"VariableDef", "CompoundAssignment"}) =>
        LET lhs == parse_expression(StartOfText) IN
        IsPlainTarget(lhs.node) => statements[1].name = TextOf(1, lhs.s.pos - 1)

-----------------------------------------------------------------------------
(* C27: the columns of an if block                                         *)

\* the source text is a block-form if whose IfElseBlock has been parsed
IsIfBlockText ==
    /\ tokens[1].type = "IF"
    /\ statements # <<>>
    /\ statements[1].kind = "IfElseBlock"

LeastOf(S) == CHOOSE x \in S : \A y \in S : x <= y

\* the ELSE tokens of the text
ElseTokens == {p \in 1..Len(tokens) : tokens[p].type = "ELSE"}

\* the token that opens the last block of the if: its else, or the if
BlockAnchor == IF ElseTokens = {} THEN 1 ELSE LeastOf(ElseTokens)

\* the tokens that start a statement on a line of their own
LineStarts ==
    {p \in 2..Len(tokens) :
        /\ tokens[p - 1].type = "NEWLINE"
        /\ tokens[p].type \notin {"NEWLINE", "EOF", "ELSE"}}

\* the line starts after the anchor: the first one opens the body
BodyLines == {p \in LineStarts : p > BlockAnchor}

\* the line starts after the first body line that are left of the body or
\* not right of the anchor
Dedents ==
    {p \in BodyLines :
        /\ p > LeastOf(BodyLines)
        /\ \/ tokens[p].column <= tokens[BlockAnchor].column
           \/ tokens[p].column < tokens[LeastOf(BodyLines)].column}

\* the statements of a body start right of the anchor column and not left
\* of the first of them
ColumnsWithin(body, column) ==
    \A j \in 1..Len(body) :
        body[j].column > column /\ body[j].column >= body[1].column

\* C27: in the IfElseBlock of a block-form if, the statements of if_body
\* start right of the if token and not left of the first of them, and the
\* statements of else_body do so relative to the else token; and parsing
\* the block does not consume the first statement-start token after the
\* body's first line that is not right of the if (of the else, for an else
\* body) or is left of the body: when the block has been parsed, the cursor
\* is not past that token.
C27_BlockEndsAtDedent ==
    IsIfBlockText =>
        /\ ColumnsWithin(statements[1].if_body, tokens[1].column)
        /\ ElseTokens # {} =>
              ColumnsWithin(statements[1].else_body, tokens[LeastOf(ElseTokens)].column)
        /\ (Len(statements) = 1 /\ pc = "loop" /\ Dedents # {}) =>
              pstate.pos <= LeastOf(Dedents)

-----------------------------------------------------------------------------
(* C28: the type recorded for a defined variable                           *)

\* the program is a definition of x from a literal and then v:y:U=x
IsRecordedPair ==
    /\ tokens \in RecordedTypeSources
    /\ Len(statements) = 2

\* the type of the literal the token writes
LiteralTypeName(token) ==
    IF token.type = "STRING" THEN "str"
    ELSE IF token.value \in {"2.5", "2.0"} THEN "float"
    ELSE "int"

\* the token of the value of v:x=E (the fifth) or of v:x:T=E (the seventh)
FirstValueToken == IF tokens[4].type = "EQUALS" THEN tokens[5] ELSE tokens[7]

\* the type the first definition records for x: the declared one if it is
\* annotated, the type of its literal otherwise
RecordedName ==
    IF statements[1].type_annotation.kind = "None"
    THEN LiteralTypeName(FirstValueToken)
    ELSE statements[1].type_annotation.name

\* C28: after a definition of x, a later v:y:U=x is checked as the
\* assignment of a value of the declared type of x when x was annotated,
\* whether its own value matched the annotation or not (and that mismatch is
\* reported on its own), and of the inferred type of the value of x when it
\* was not annotated.
C28_DeclaredTypeIsRecorded ==
    (pc = "checked" /\ IsRecordedPair) =>
        /\ UseIsCheckedAs(statements[2], RecordedName)
        /\ statements[1].type_annotation.kind # "None" =>
              UseIsCheckedAs(statements[1], LiteralTypeName(FirstValueToken))
        /\ Len(errors) = Cardinality(ErrorsAt("variable", statements[1].column))
                         + Cardinality(ErrorsAt("variable", statements[2].column))

\* v:x:float=42|v:y:int=x has been checked: the only error is on y
C28_Witness ==
    /\ pc = "checked"
    /\ tokens = Src(<<"v", ":", "x", ":", "float", "=", "42", "|",
                      "v", ":", "y", ":", "int", "=", "x">>)
    /\ Len(errors) = 1
    /\ errors[1].subject = "y"

-----------------------------------------------------------------------------
(* C29: _check_function leaves the enclosing scope as it was               *)

\* the names the top-level definitions among the first n statements define
TopLevelNames(n) ==
    {statements[k].name : k \in {j \in 1..n : statements[j].kind = "VariableDef"}}

\* the program is [v:i0:str='a'] / fn:f|i:int|o:int|v:w:int=1|ret:1 / after
IsFrameProgram ==
    /\ tokens \in FrameSources
    /\ statements # <<>>
    /\ statements[Len(statements)].kind \in {"VariableDef", "ReturnStmt"}
    /\ statements[Len(statements) - 1].kind = "FunctionDef"

\* the type of a name after the function: that of the outer definition of
\* the name, any without one
OuterTypeName(name) ==
    IF statements[1].kind = "VariableDef" /\ statements[1].name = name
    THEN statements[1].type_annotation.name
    ELSE "any"

\* the statement after the function is checked in the scope the function
\* was checked in, and outside any function
AfterIsCheckedOutside(after) ==
    IF after.kind = "ReturnStmt"
    THEN errors = <<>>
    ELSE /\ UseIsCheckedAs(after, OuterTypeName(after.value.name))
         /\ Len(errors) = Cardinality(ErrorsAt("variable", after.column))

\* C29: between the top-level statements of a check, and when it has
\* returned, no function and no return type is current and the symbol table
\* holds exactly the names defined at top level so far, whatever functions
\* were checked; so after a function with parameter i0 and body variable w,
\* a use of i0 or w is checked against the outer i0, or any, and a top-level
\* ret: is not reported.
C29_FunctionLeavesScope ==
    pc \in {"checking", "checked"} =>
        /\ current_function = <<>>
        /\ current_return_type = <<>>
        /\ DOMAIN symbols = TopLevelNames(stmt_index - 1)
        /\ (pc = "checked" /\ IsFrameProgram) =>
              AfterIsCheckedOutside(statements[Len(statements)])

\* a function was checked after an outer v:i0:str='a', and then v:y:str=i0
\* passed: i0 is the outer str again, not the int parameter
C29_Witness ==
    /\ pc = "checked" /\ IsFrameProgram
    /\ Len(statements) = 3
    /\ statements[3].kind = "VariableDef"
    /\ statements[3].type_annotation.name = "str"
    /\ statements[3].value.name = "i0"
    /\ errors = <<>>
    /\ DOMAIN symbols = {"i0", "y"}

-----------------------------------------------------------------------------
(* C30: decorators are not dropped                                         *)

\* the decorators of the text: its AT tokens
Decorators == {p \in 1..Len(tokens) : tokens[p].type = "AT"}

\* C30: a source text that starts with decorators either raises ParseError
\* or has the decorated definition as its first statement: when parse has
\* left the first statement behind, that statement is a FunctionDef that
\* carries one Decorator for each decorator of the text.
C30_DecoratorsAreKept ==
    (tokens[1].type = "AT" /\ (Parsed \/ statements # <<>>)) =>
        /\ statements # <<>>
        /\ statements[1].kind = "FunctionDef"
        /\ Len(statements[1].decorators) = Cardinality(Decorators)
        /\ \A k \in 1..Len(statements[1].decorators) :
              statements[1].decorators[k].kind = "Decorator"

====
